---------------------------- MODULE Spec2Model ----------------------------
(***************************************************************************)
(* Entity resolution between the subject graph (LLM-extracted entity nodes, *)
(* tagged __Entity__) and the domain graph (CSV-loaded nodes), as done by   *)
(* EntityResolutionAgent in src/notebooks/entity_resolution_agent.py.        *)
(*                                                                           *)
(* Text is a sequence of one-character strings, so that lower-casing,       *)
(* prefix stripping, substring tests and the Jaro-Winkler metric are         *)
(* computed, not assumed.  Scores and thresholds are exact rationals        *)
(* <<numerator, denominator>> in lowest terms (binary floating point         *)
(* rounding is not modelled).                                                *)
(***************************************************************************)
EXTENDS Integers, Sequences, FiniteSets, TLC

VARIABLES nodes, edges, now, last, kin, kout, passes

vars == <<nodes, edges, now, last, kin, kout, passes>>

-----------------------------------------------------------------------------
(* Integers and rationals *)

Min2(a, b) == IF a <= b THEN a ELSE b

Max2(a, b) == IF a >= b THEN a ELSE b

SetMin(S) == CHOOSE x \in S : \A y \in S : x <= y

SetMax(S) == CHOOSE x \in S : \A y \in S : x >= y

RECURSIVE Gcd(_, _)
Gcd(a, b) == IF b = 0 THEN a ELSE Gcd(b, a % b)

\* The rational n/d (d > 0) in lowest terms.
Rat(n, d) == LET g == Gcd(n, d) IN IF n = 0 THEN <<0, 1>> ELSE <<n \div g, d \div g>>

One == <<1, 1>>

Zero == <<0, 1>>

RLess(a, b) == a[1] * b[2] < b[1] * a[2]

RGeq(a, b) == ~RLess(a, b)

\* 1.0 - a
ROneMinus(a) == Rat(a[2] - a[1], a[2])

-----------------------------------------------------------------------------
(* Text *)

UpperOf == [a |-> "A", b |-> "B", c |-> "C", d |-> "D", e |-> "E", f |-> "F",
            n |-> "N", p |-> "P", s |-> "S", u |-> "U", x |-> "X"]

LowerLetters == DOMAIN UpperOf

\* str.lower() / toLower() on one character.
LowerChar(c) == IF \E l \in LowerLetters : UpperOf[l] = c
                THEN CHOOSE l \in LowerLetters : UpperOf[l] = c
                ELSE c

\* str.lower() / Cypher toLower().
ToLower(s) == [i \in 1..Len(s) |-> LowerChar(s[i])]

UpperChar(c) == IF c \in LowerLetters THEN UpperOf[c] ELSE c

ToUpper(s) == [i \in 1..Len(s) |-> UpperChar(s[i])]

\* s[from..] (1-based), the empty text when from > Len(s).
Drop(s, k) == SubSeq(s, k + 1, Len(s))

StartsWith(s, p) == Len(p) <= Len(s) /\ SubSeq(s, 1, Len(p)) = p

\* Python's "a in b" on strings.
IsSubstring(a, b) ==
    \E i \in 0..(Len(b) - Len(a)) : SubSeq(b, i + 1, i + Len(a)) = a

-----------------------------------------------------------------------------
(* apoc.text.jaroWinklerDistance: 1 - Jaro-Winkler similarity, null when an  *)
(* argument is null.  The similarity is the one of commons-text, which APOC *)
(* delegates to: greedy matching of the shorter text into the longer one    *)
(* within a window, half-transpositions, a common prefix of at most 4, and  *)
(* the prefix boost applied only from a Jaro score of 0.7 on.                *)

\* For each position of mn, the position of mx it is matched to (0: none).
RECURSIVE JaroMatch(_, _, _, _, _)
JaroMatch(mn, mx, range, mi, acc) ==
    IF mi > Len(mn) THEN acc
    ELSE LET used == {acc[k] : k \in 1..Len(acc)}
             cand == {xi \in Max2(mi - range, 1)..Min2(mi + range, Len(mx)) :
                          xi \notin used /\ mx[xi] = mn[mi]}
             pick == IF cand = {} THEN 0 ELSE SetMin(cand)
         IN  JaroMatch(mn, mx, range, mi + 1, Append(acc, pick))

\* The elements of the set of positions S, ascending.
RECURSIVE Ascending(_)
Ascending(S) == IF S = {} THEN <<>>
                ELSE LET m == SetMin(S) IN <<m>> \o Ascending(S \ {m})

CommonPrefix(a, b, limit) ==
    LET agree == {k \in 0..limit : \A i \in 1..k : a[i] = b[i]}
    IN  SetMax(agree)

\* The plain Jaro score, without the prefix boost.
JaroScoreOnly(m, ht, p, a, b) ==
    IF m = 0 THEN Zero
    ELSE Rat(2 * m * m * b + 2 * m * m * a + (2 * m - ht) * a * b, 6 * a * b * m)

\* The score from the counts: m matches, ht half-transpositions, a common
\* prefix of p, texts of lengths a and b.  Jaro is
\* (m/a + m/b + (m - ht/2)/m) / 3 = jn/jd, and from 0.7 on the prefix adds
\* 0.1 * p * (1 - jaro).
JaroWinklerScore(m, ht, p, a, b) ==
    LET jn == 2 * m * m * b + 2 * m * m * a + (2 * m - ht) * a * b
        jd == 6 * a * b * m
    IN  IF m = 0 THEN Zero
        ELSE IF 10 * jn < 7 * jd THEN Rat(jn, jd)
        ELSE Rat(10 * jn + p * (jd - jn), 10 * jd)

\* The number of matched characters that are out of order: the k-th matched
\* character of mn against the k-th matched character of mx.
HalfTranspositions(mn, mx, from, to) ==
    Cardinality({k \in 1..Len(from) : mn[from[k]] # mx[to[k]]})

\* idx: for each position of mn the position of mx matched to it, or 0.
JaroWinklerOfMatch(left, right, mn, mx, idx) ==
    JaroWinklerScore(
        Cardinality({i \in 1..Len(mn) : idx[i] # 0}),
        HalfTranspositions(mn, mx,
            SelectSeq([i \in 1..Len(mn) |-> i], LAMBDA i : idx[i] # 0),
            Ascending({idx[i] : i \in 1..Len(mn)} \ {0})),
        CommonPrefix(left, right, Min2(4, Len(mn))),
        Len(left), Len(right))

\* mn is the shorter text and mx the longer one (right when equally long).
JaroWinklerOrdered(left, right, mn, mx) ==
    JaroWinklerOfMatch(left, right, mn, mx,
        JaroMatch(mn, mx, Max2((Len(mx) \div 2) - 1, 0), 1, <<>>))

JaroWinklerSimilarity(left, right) ==
    IF left = right THEN One
    ELSE IF Len(left) > Len(right)
    THEN JaroWinklerOrdered(left, right, right, left)
    ELSE JaroWinklerOrdered(left, right, left, right)

\* Cypher null (a missing property, and what a function of null returns);
\* a value that is not null is Some(v).
Null == <<>>

Some(v) == <<v>>

\* null when either text is null, else 1 - similarity.
JaroWinklerDistance(t1, t2) ==
    IF t1 = Null \/ t2 = Null THEN Null
    ELSE Some(ROneMinus(JaroWinklerSimilarity(t1[1], t2[1])))

-----------------------------------------------------------------------------
(* Key normalisation and key correlation *)

Separators == {"_", " "}

\* The length of the longest prefix of s made of separators: what [_ ]* eats.
RECURSIVE SeparatorRun(_)
SeparatorRun(s) ==
    IF s # <<>> /\ Head(s) \in Separators THEN 1 + SeparatorRun(Tail(s)) ELSE 0

\* The label removed, the separators after it left in place.
StripLabelOnly(label_lower, s) ==
    IF StartsWith(s, label_lower) THEN Drop(s, Len(label_lower)) ELSE s

\* re.sub("^" + label_lower + "[_ ]*", "", s): the pattern is anchored, so at
\* most the one occurrence at the start is removed (labels are made of
\* letters, which the regular expression takes literally).
StripLabelPrefix(label_lower, s) ==
    IF StartsWith(s, label_lower)
    THEN LET rest == Drop(s, Len(label_lower)) IN Drop(rest, SeparatorRun(rest))
    ELSE s

\* re.sub(" ", "_", s)
SpacesToUnderscores(s) == [i \in 1..Len(s) |-> IF s[i] = " " THEN "_" ELSE s[i]]

normalize_key(label, key) ==
    SpacesToUnderscores(StripLabelPrefix(ToLower(label), ToLower(key)))

\* min(len(a), len(b)) / max(len(a), len(b)); only evaluated for a # b, so
\* the longer one is not empty.
LengthRatio(a, b) == Rat(Min2(Len(a), Len(b)), Max2(Len(a), Len(b)))

\* The partial match kept whatever the threshold.
PartialMatchAlways(entity_key, domain_key, similarity, threshold) ==
    << <<entity_key, domain_key, similarity>> >>

\* A partial match of score 0 never kept.
PartialMatchPositive(entity_key, domain_key, similarity, threshold) ==
    IF RGeq(similarity, threshold) /\ RLess(Zero, similarity)
    THEN << <<entity_key, domain_key, similarity>> >>
    ELSE <<>>

\* The partial-match branch: the triple is kept when the length ratio
\* reaches the threshold.
PartialMatch(entity_key, domain_key, similarity, threshold) ==
    IF RGeq(similarity, threshold)
    THEN << <<entity_key, domain_key, similarity>> >>
    ELSE <<>>

\* The if / elif of the inner loop body on the two normalized keys.
CorrelateNormalized(entity_key, domain_key, normalized_entity, normalized_domain, threshold) ==
    IF normalized_entity = normalized_domain
    THEN << <<entity_key, domain_key, One>> >>
    ELSE IF IsSubstring(normalized_entity, normalized_domain)
            \/ IsSubstring(normalized_domain, normalized_entity)
    THEN PartialMatch(entity_key, domain_key,
                      LengthRatio(normalized_entity, normalized_domain), threshold)
    ELSE <<>>

\* The triples the inner loop body appends for one (entity_key, domain_key):
\* none or one.
CorrelatePair(label, entity_key, domain_key, threshold) ==
    CorrelateNormalized(entity_key, domain_key, normalize_key(label, entity_key),
                        normalize_key(label, domain_key), threshold)

\* The list built by the two nested loops, before sorting.
RECURSIVE CorrelateLoop(_, _, _, _, _, _)
CorrelateLoop(label, entity_keys, domain_keys, threshold, i, j) ==
    IF i > Len(entity_keys) THEN <<>>
    ELSE IF j > Len(domain_keys)
    THEN CorrelateLoop(label, entity_keys, domain_keys, threshold, i + 1, 1)
    ELSE CorrelatePair(label, entity_keys[i], domain_keys[j], threshold)
         \o CorrelateLoop(label, entity_keys, domain_keys, threshold, i, j + 1)

\* x inserted before the elements with an equal score: an unstable sort.
RECURSIVE InsertBeforeEqual(_, _)
InsertBeforeEqual(acc, x) ==
    IF acc = <<>> THEN <<x>>
    ELSE IF RGeq(x[3], Head(acc)[3]) THEN <<x>> \o acc
    ELSE <<Head(acc)>> \o InsertBeforeEqual(Tail(acc), x)

\* x inserted into the list acc, which is sorted by score descending, after
\* every element whose score is not lower: equal scores keep their order.
RECURSIVE InsertByScore(_, _)
InsertByScore(acc, x) ==
    IF acc = <<>> THEN <<x>>
    ELSE IF RLess(Head(acc)[3], x[3]) THEN <<x>> \o acc
    ELSE <<Head(acc)>> \o InsertByScore(Tail(acc), x)

\* The sort left out: the list in discovery order.
DiscoveryOrder(list) == list

\* list.sort(key=lambda x: x[2], reverse=True): a stable sort, and reverse
\* keeps the original order of elements with equal keys.
RECURSIVE SortByScoreDesc(_)
SortByScoreDesc(list) ==
    IF list = <<>> THEN <<>>
    ELSE InsertByScore(SortByScoreDesc(SubSeq(list, 1, Len(list) - 1)),
                       list[Len(list)])

correlate_keys(label, entity_keys, domain_keys, similarity_threshold) ==
    SortByScoreDesc(
        CorrelateLoop(label, entity_keys, domain_keys, similarity_threshold, 1, 1))

-----------------------------------------------------------------------------
(* The property graph: nodes as ingestion left them, and the CORRESPONDS_TO *)
(* relationships.  A node is [labels, props]: labels(n) as a list, and the  *)
(* properties as a list of <<key, value>> in keys(n) order.  Node i of the   *)
(* graph has id(n) = i.                                                      *)

EntityTag == <<"_", "_", "E", "n", "t", "i", "t", "y", "_", "_">>

SystemPrefix == <<"_", "_">>

Product == <<"P", "r", "o", "d", "u", "c", "t">>

Part == <<"P", "a", "r", "t">>

Labels == {Product, Part}

kName == <<"n", "a", "m", "e">>

kProductName == <<"P", "r", "o", "d", "u", "c", "t", "_", "N", "a", "m", "e">>

kFullName == <<"f", "u", "l", "l", "n", "a", "m", "e">>

UppsalaSofa == <<"U", "p", "p", "s", "a", "l", "a", " ", "S", "o", "f", "a">>

UppsalaSofaDeluxe == UppsalaSofa \o <<" ", "D", "e", "l", "u", "x", "e">>

vAb == <<"a", "b">>

vAB == <<"A", "B">>

vAbc == <<"a", "b", "c">>

vAx == <<"A", "x">>

EntityNode(labels, props) == [labels |-> <<EntityTag>> \o labels, props |-> props]

DomainNode(labels, props) == [labels |-> labels, props |-> props]

\* The end-to-end scenario: one extracted product, its exact domain record
\* and a near-duplicate domain record.
GraphUppsala ==
    << EntityNode(<<Product>>, << <<kProductName, UppsalaSofa>> >>),
       DomainNode(<<Product>>, << <<kName, UppsalaSofa>> >>),
       DomainNode(<<Product>>, << <<kName, UppsalaSofaDeluxe>> >>) >>

\* Entities with different key spellings, values differing in case and by
\* a letter.
GraphSpellings ==
    << EntityNode(<<Product>>, << <<kName, vAb>> >>),
       EntityNode(<<Product>>, << <<kProductName, vAx>> >>),
       DomainNode(<<Product>>, << <<kName, vAB>> >>),
       DomainNode(<<Product>>, << <<kName, vAbc>> >>) >>

\* An entity carrying two labels, and entities carrying the key the domain
\* records use.
GraphTwoLabels ==
    << EntityNode(<<Product, Part>>, << <<kName, vAb>> >>),
       DomainNode(<<Product>>, << <<kName, vAb>> >>),
       DomainNode(<<Part>>, << <<kName, vAx>> >>),
       EntityNode(<<Part>>, << <<kName, vAx>> >>) >>

\* Keys that correlate only partially, a label without domain records and
\* an entity without properties.
GraphSparse ==
    << EntityNode(<<Product>>, << <<kName, vAb>> >>),
       DomainNode(<<Product>>, << <<kFullName, vAB>> >>),
       EntityNode(<<Part>>, << <<kName, vAb>> >>),
       EntityNode(<<Product>>, <<>>),
       DomainNode(<<Product>>, << <<kFullName, vAbc>>, <<kName, vAx>> >>) >>

\* LIMIT 10 of the two queries of validate_resolutions
IssueLimit == 10

\* One more than the validation queries return.
CrowdSize == IssueLimit + 1

\* More ambiguous entities than the validation query returns rows: eleven
\* extracted products, each equal (but for the case) to two domain records.
GraphCrowd ==
    [i \in 1..CrowdSize |-> EntityNode(<<Product>>, << <<kProductName, vAb>> >>)]
    \o << DomainNode(<<Product>>, << <<kName, vAb>> >>),
          DomainNode(<<Product>>, << <<kName, vAB>> >>) >>

\* More weak matches than the validation query returns rows: one extracted
\* product and eleven domain records a letter away from it.
GraphFaint ==
    << EntityNode(<<Product>>, << <<kProductName, vAb>> >>) >>
    \o [i \in 1..CrowdSize |-> DomainNode(<<Product>>, << <<kName, vAx>> >>)]

\* Keys that correlate at the threshold 0.5 and not at 0.8.
GraphUnrelated ==
    << EntityNode(<<Product>>, << <<kName, vAb>> >>),
       DomainNode(<<Product>>, << <<kFullName, vAb>> >>) >>

Graphs == {GraphUppsala, GraphSpellings, GraphTwoLabels, GraphSparse, GraphUnrelated}

\* The graphs with more rows than the validation queries return.
AuditGraphs == {GraphCrowd, GraphFaint}

NodeIds == DOMAIN nodes

SeqToSet(q) == {q[i] : i \in 1..Len(q)}

HasLabel(n, label) == label \in SeqToSet(nodes[n].labels)

IsEntity(n) == HasLabel(n, EntityTag)

\* n[key]: null when the node has no such property.
Prop(n, key) ==
    LET at == {i \in 1..Len(nodes[n].props) : nodes[n].props[i][1] = key}
    IN  IF at = {} THEN Null ELSE Some(nodes[n].props[SetMin(at)][2])

\* toLower(toString(v)); both return null for null.  Every property value
\* of the model is a string, which toString leaves as it is.
LowerText(v) == IF v = Null THEN Null ELSE Some(ToLower(v[1]))

\* The list q without the later occurrences of each element: the order in
\* which DISTINCT meets the values.
RECURSIVE Distinct(_)
Distinct(q) ==
    IF q = <<>> THEN <<>>
    ELSE LET front == Distinct(SubSeq(q, 1, Len(q) - 1))
             x == q[Len(q)]
         IN  IF x \in SeqToSet(front) THEN front ELSE Append(front, x)

\* The concatenation of f[lo], ..., f[hi].
RECURSIVE Flatten(_, _, _)
Flatten(f, lo, hi) == IF lo > hi THEN <<>> ELSE f[lo] \o Flatten(f, lo + 1, hi)

\* The nodes satisfying keep, by ascending id (the scan order).
NodesWhere(keep(_)) == SelectSeq([i \in 1..Len(nodes) |-> i], keep)

KeysOf(n) == [i \in 1..Len(nodes[n].props) |-> nodes[n].props[i][1]]

find_unique_entity_labels ==
    LET ents == NodesWhere(IsEntity)
        all == Flatten([i \in 1..Len(ents) |-> nodes[ents[i]].labels], 1, Len(ents))
    IN  Distinct(SelectSeq(all, LAMBDA l : ~StartsWith(l, SystemPrefix)))

find_unique_entity_keys(entity_label) ==
    LET ns == NodesWhere(LAMBDA n : HasLabel(n, entity_label) /\ IsEntity(n))
    IN  Distinct(Flatten([i \in 1..Len(ns) |-> KeysOf(ns[i])], 1, Len(ns)))

find_unique_domain_keys(domain_label) ==
    LET ns == NodesWhere(LAMBDA n : HasLabel(n, domain_label) /\ ~IsEntity(n))
    IN  Distinct(Flatten([i \in 1..Len(ns) |-> KeysOf(ns[i])], 1, Len(ns)))

-----------------------------------------------------------------------------
(* create_correspondence_relationships *)

\* The comparison reversed: distance above the threshold.
AboveDistance(dist, distance_threshold) ==
    dist # Null /\ RLess(distance_threshold, dist[1])

\* The WHERE clause of the join: the distance of the two lower-cased values
\* is below the distance threshold.  A null distance (a missing property)
\* makes the comparison null, and the row is dropped.
BelowDistance(dist, distance_threshold) ==
    dist # Null /\ RLess(dist[1], distance_threshold)

\* apoc.text.jaroWinklerDistance(toLower(toString(entity[entityKey])),
\*                               toLower(toString(domain[domainKey])))
NodeDistance(e, d, entity_key, domain_key) ==
    JaroWinklerDistance(LowerText(Prop(e, entity_key)), LowerText(Prop(d, domain_key)))

DistanceBelow(e, d, entity_key, domain_key, distance_threshold) ==
    BelowDistance(NodeDistance(e, d, entity_key, domain_key), distance_threshold)

\* The domain pattern without its label: every node binds domain.
DomainCandidateAny(e, d, label) == TRUE

\* MATCH (entity:label:__Entity__), (domain:label): the two patterns are
\* not connected, so every node carrying the label binds domain, entity
\* nodes and the node bound to entity included.
DomainCandidate(e, d, label) == HasLabel(d, label)

\* The rows MATCH ... WHERE yields: pairs <<entity id, domain id>>.
JoinRows(label, entity_key, domain_key, similarity_threshold) ==
    LET distance_threshold == ROneMinus(similarity_threshold)
    IN  {p \in NodeIds \X NodeIds :
            /\ HasLabel(p[1], label) /\ IsEntity(p[1])
            /\ DomainCandidate(p[1], p[2], label)
            /\ DistanceBelow(p[1], p[2], entity_key, domain_key, distance_threshold)}

NewEdge(e, d, entity_key, domain_key, time) ==
    [src |-> e, dst |-> d,
     similarity |-> ROneMinus(NodeDistance(e, d, entity_key, domain_key)[1]),
     entity_key |-> entity_key, domain_key |-> domain_key,
     created_at |-> time, updated_at |-> 0]

\* CREATE instead of MERGE: a new relationship for every row.
MergeRowCreate(E, e, d, entity_key, domain_key, time) ==
    [edges |-> E \cup {NewEdge(e, d, entity_key, domain_key, time)}, rows |-> 1]

\* ON MATCH setting every property again, as ON CREATE does.
MergeRowOverwrite(E, e, d, entity_key, domain_key, time) ==
    [edges |-> {r \in E : ~(r.src = e /\ r.dst = d)}
               \cup {[NewEdge(e, d, entity_key, domain_key, time)
                        EXCEPT !.updated_at = time]},
     rows |-> 1]

\* MERGE (entity)-[r:CORRESPONDS_TO]->(domain) ON CREATE SET ... ON MATCH SET
\* r.updated_at = datetime(), for one row: [edges, rows] with the number of
\* rows the MERGE hands on.  updated_at = 0 stands for the property not set.
MergeRow(E, e, d, entity_key, domain_key, time) ==
    LET existing == {r \in E : r.src = e /\ r.dst = d}
    IN  IF existing # {}
        THEN [edges |-> (E \ existing) \cup {[r EXCEPT !.updated_at = time] : r \in existing},
              rows |-> Cardinality(existing)]
        ELSE [edges |-> E \cup {NewEdge(e, d, entity_key, domain_key, time)},
              rows |-> 1]

\* The relationships of E between the nodes of the row p after its MERGE.
MergedEdges(E, p, entity_key, domain_key, time) ==
    {r \in MergeRow(E, p[1], p[2], entity_key, domain_key, time).edges :
        r.src = p[1] /\ r.dst = p[2]}

\* The rows the MERGE of the row p hands on to count(r), numbered.
MergedRows(E, p, entity_key, domain_key, time) ==
    {<<p, i>> : i \in 1..MergeRow(E, p[1], p[2], entity_key, domain_key, time).rows}

\* The edges rebuilt from the rows: an edge no row matches is dropped.
MergeRowsReplacing(E, rows, entity_key, domain_key, time) ==
    [edges |-> UNION {MergedEdges(E, p, entity_key, domain_key, time) : p \in rows},
     count |-> Cardinality(UNION {MergedRows(E, p, entity_key, domain_key, time) : p \in rows})]

\* The MERGE over every row, and count(r).  The rows are distinct pairs
\* and a MERGE touches only the relationships between the nodes of its
\* row, so the order of the rows does not matter.
MergeRows(E, rows, entity_key, domain_key, time) ==
    [edges |-> {r \in E : <<r.src, r.dst>> \notin rows}
               \cup UNION {MergedEdges(E, p, entity_key, domain_key, time) : p \in rows},
     count |-> Cardinality(UNION {MergedRows(E, p, entity_key, domain_key, time) : p \in rows})]

\* The keys of the two dictionaries the call returns.
BuildErrorKeys == {"status", "error", "relationships_created"}

BuildSuccessKeys == {"status", "label", "entity_key", "domain_key", "relationships_created"}

\* No row matched taken for a failure.
BuildSuccessNonEmpty(m) ==
    [status |-> IF m.count = 0 THEN "error" ELSE "success",
     relationships_created |-> m.count, edges |-> m.edges,
     keys |-> IF m.count = 0 THEN BuildErrorKeys ELSE BuildSuccessKeys]

\* count(r) yields one row also when nothing matched: the count is 0.
BuildSuccess(m) ==
    [status |-> "success", relationships_created |-> m.count, edges |-> m.edges,
     keys |-> BuildSuccessKeys]

\* The call on the edges E at time `time`; store_error: the store reports an
\* error for the query, which then writes nothing.
create_correspondence_relationships(E, label, entity_key, domain_key, similarity_threshold, time, store_error) ==
    IF store_error
    THEN [status |-> "error", relationships_created |-> 0, edges |-> E,
          keys |-> BuildErrorKeys]
    ELSE BuildSuccess(MergeRows(E, JoinRows(label, entity_key, domain_key,
                                            similarity_threshold),
                                entity_key, domain_key, time))

-----------------------------------------------------------------------------
(* resolve_all_entities *)

\* The loop body for one label.  acc is the run so far: the edges, the
\* results dictionary (entities_resolved as a list of <<label, count>> in
\* insertion order), the number of queries sent (q), the clock, the builds
\* invoked (label, key pair, correlation score, threshold), and whether an exception has left the function (raised).
\* fail is the number of the query the store fails (0: none).

\* The status of the build not looked at: the count recorded in any case.
RecordResolutionAlways(acc, entity_label, best_match, similarity_threshold, resolution_result) ==
    [acc EXCEPT !.q = acc.q + 3,
                !.edges = resolution_result.edges,
                !.time = acc.time + 1,
                !.builds = Append(@, <<entity_label, best_match[1], best_match[2],
                                       best_match[3], similarity_threshold>>),
                !.entities_resolved =
                    Append(@, <<entity_label, resolution_result.relationships_created>>),
                !.total_relationships = @ + resolution_result.relationships_created]

\* if resolution_result['status'] == 'success': ... else: ...
RecordResolution(acc, entity_label, best_match, similarity_threshold, resolution_result) ==
    IF resolution_result.status = "success"
    THEN [acc EXCEPT !.q = acc.q + 3,
                     !.edges = resolution_result.edges,
                     !.time = acc.time + 1,
                     !.builds = Append(@, <<entity_label, best_match[1], best_match[2],
                                            best_match[3], similarity_threshold>>),
                     !.entities_resolved =
                         Append(@, <<entity_label, resolution_result.relationships_created>>),
                     !.total_relationships = @ + resolution_result.relationships_created]
    ELSE [acc EXCEPT !.q = acc.q + 3,
                     !.builds = Append(@, <<entity_label, best_match[1], best_match[2],
                                            best_match[3], similarity_threshold>>),
                     !.errors = Append(@, [kind |-> "build_failed", label |-> entity_label])]

\* best_match = correlated_keys[0], and the build with it.
ResolveWithBest(acc, entity_label, best_match, similarity_threshold, fail) ==
    RecordResolution(acc, entity_label, best_match, similarity_threshold,
        create_correspondence_relationships(acc.edges, entity_label,
            best_match[1], best_match[2], similarity_threshold, acc.time,
            fail = acc.q + 3))

\* The last correlated pair used instead of the first.
ResolveWithWorst(acc, entity_label, correlated_keys, similarity_threshold, fail) ==
    IF correlated_keys = <<>>
    THEN [acc EXCEPT !.q = acc.q + 2,
                     !.errors = Append(@, [kind |-> "no_correlation", label |-> entity_label])]
    ELSE ResolveWithBest(acc, entity_label, correlated_keys[Len(correlated_keys)],
                         similarity_threshold, fail)

\* if not correlated_keys: ... continue
ResolveWithCorrelation(acc, entity_label, correlated_keys, similarity_threshold, fail) ==
    IF correlated_keys = <<>>
    THEN [acc EXCEPT !.q = acc.q + 2,
                     !.errors = Append(@, [kind |-> "no_correlation", label |-> entity_label])]
    ELSE ResolveWithBest(acc, entity_label, correlated_keys[1], similarity_threshold, fail)

\* if not entity_keys or not domain_keys: ... continue
ResolveWithKeys(acc, entity_label, entity_keys, domain_keys, similarity_threshold, key_correlation_threshold, fail) ==
    IF entity_keys = <<>> \/ domain_keys = <<>>
    THEN [acc EXCEPT !.q = acc.q + 2,
                     !.errors = Append(@, [kind |-> "no_keys", label |-> entity_label])]
    ELSE ResolveWithCorrelation(acc, entity_label,
             correlate_keys(entity_label, entity_keys, domain_keys,
                            key_correlation_threshold),
             similarity_threshold, fail)

\* The two key queries raise when the store fails them.
ResolveLabel(acc, entity_label, similarity_threshold, key_correlation_threshold, fail) ==
    IF acc.raised THEN acc
    ELSE IF fail = acc.q + 1
    THEN [acc EXCEPT !.raised = TRUE, !.q = acc.q + 1]
    ELSE IF fail = acc.q + 2
    THEN [acc EXCEPT !.raised = TRUE, !.q = acc.q + 2]
    ELSE ResolveWithKeys(acc, entity_label, find_unique_entity_keys(entity_label),
                         find_unique_domain_keys(entity_label),
                         similarity_threshold, key_correlation_threshold, fail)

RECURSIVE ResolveLoop(_, _, _, _, _, _)
ResolveLoop(acc, entity_labels, i, similarity_threshold, key_correlation_threshold, fail) ==
    IF i > Len(entity_labels) THEN acc
    ELSE ResolveLoop(ResolveLabel(acc, entity_labels[i], similarity_threshold,
                                  key_correlation_threshold, fail),
                     entity_labels, i + 1, similarity_threshold,
                     key_correlation_threshold, fail)

\* The keys of the results dictionary.
ResultKeys == {"entities_resolved", "total_relationships", "errors"}

\* The whole call on the edges E at time `time`.  The labels query is query
\* number 1; its failure raises before any label is processed.
resolve_all_entities(E, similarity_threshold, key_correlation_threshold, time, fail) ==
    ResolveLoop([edges |-> E, entities_resolved |-> <<>>,
                 total_relationships |-> 0, errors |-> <<>>,
                 q |-> 1, time |-> time, builds |-> <<>>, raised |-> fail = 1],
                find_unique_entity_labels, 1, similarity_threshold,
                key_correlation_threshold, fail)

-----------------------------------------------------------------------------
(* remove_correspondence_relationships and get_resolution_statistics *)

\* The label filter dropped: every entity's relationship.
RemovalSetAll(E, label) == {r \in E : IsEntity(r.src)}

\* The label always used as a filter: no label, no relationship matched.
RemovalSetLabelled(E, label) == {r \in E : HasLabel(r.src, label) /\ IsEntity(r.src)}

\* MATCH (e:label:__Entity__)-[r:CORRESPONDS_TO]->(), or every entity's
\* relationship when label is falsy (None or the empty string, here <<>>).
RemovalSet(E, label) ==
    IF label # <<>>
    THEN {r \in E : HasLabel(r.src, label) /\ IsEntity(r.src)}
    ELSE {r \in E : IsEntity(r.src)}

remove_correspondence_relationships(E, label, store_error) ==
    IF store_error
    THEN [status |-> "error", deleted_count |-> 0, edges |-> E]
    ELSE [status |-> "success", deleted_count |-> Cardinality(RemovalSet(E, label)),
          edges |-> E \ RemovalSet(E, label)]

\* The labels the statistics queries group by: UNWIND labels(e), system
\* labels dropped.
UserLabels(n) == {l \in SeqToSet(nodes[n].labels) : ~StartsWith(l, SystemPrefix)}

\* count(DISTINCT r) of the rows of one entity_label group.
CorrespondenceCount(E, entity_label) ==
    Cardinality({r \in E : IsEntity(r.src) /\ entity_label \in UserLabels(r.src)})

\* The pattern without its direction: an entity with a relationship in
\* either direction is taken as resolved.
UnresolvedCountUndirected(E, entity_label) ==
    Cardinality({n \in NodeIds : /\ IsEntity(n)
                                 /\ ~\E r \in E : r.src = n \/ r.dst = n
                                 /\ entity_label \in UserLabels(n)})

\* count(*) of the unresolved entities of one entity_label group.
UnresolvedCount(E, entity_label) ==
    Cardinality({n \in NodeIds : /\ IsEntity(n)
                                 /\ ~\E r \in E : r.src = n
                                 /\ entity_label \in UserLabels(n)})

\* stats["total_correspondences"] += row['correspondence_count'], over the
\* rows of the first query.
RECURSIVE SumCounts(_, _)
SumCounts(E, entity_labels) ==
    IF entity_labels = {} THEN 0
    ELSE LET l == CHOOSE x \in entity_labels : TRUE
         IN  CorrespondenceCount(E, l) + SumCounts(E, entity_labels \ {l})

\* The statistics dictionary once the first query has succeeded; without
\* the key unresolved_by_type when the store fails the second query.
StatisticsOf(E, grouped, unresolved, unresolved_error) ==
    [keys |-> {"resolution_by_type", "total_correspondences"}
              \cup (IF unresolved_error THEN {} ELSE {"unresolved_by_type"}),
     resolution_by_type |-> [l \in grouped |-> CorrespondenceCount(E, l)],
     total_correspondences |-> SumCounts(E, grouped),
     unresolved_by_type |-> IF unresolved_error THEN <<>>
                            ELSE [l \in unresolved |-> UnresolvedCount(E, l)]]

\* The groups the two queries return: a label has a row only when it has
\* something to count.  fail is the number of the query the store fails
\* (0: none); a failure of the first returns {"error": ...} at once.  Of the
\* per-label statistics only the count is modelled.
get_resolution_statistics(E, fail) ==
    IF fail = 1
    THEN [keys |-> {"error"}, resolution_by_type |-> <<>>,
          total_correspondences |-> 0, unresolved_by_type |-> <<>>]
    ELSE StatisticsOf(E,
             {l \in UNION {UserLabels(n) : n \in NodeIds} : CorrespondenceCount(E, l) > 0},
             {l \in UNION {UserLabels(n) : n \in NodeIds} : UnresolvedCount(E, l) > 0},
             fail = 2)

-----------------------------------------------------------------------------
(* validate_resolutions *)

\* WHERE r.similarity < 0.7
SimilarityFloor == <<7, 10>>

\* count(r) of the rows of one entity e.
OutgoingCount(E, e) == Cardinality({r \in E : r.src = e})

\* The rows of the first query before LIMIT: the entities with more than
\* one outgoing relationship.
MultipleCorrespondences(E) ==
    {[type |-> "multiple_correspondences", entity_id |-> e,
      labels |-> nodes[e].labels, count |-> OutgoingCount(E, e)] :
        e \in {n \in NodeIds : IsEntity(n) /\ OutgoingCount(E, n) > 1}}

\* The rows of the second query before LIMIT.
LowSimilarity(E) ==
    {[type |-> "low_similarity", entity_id |-> r.src, domain_id |-> r.dst,
      similarity |-> r.similarity] :
        r \in {x \in E : IsEntity(x.src) /\ RLess(x.similarity, SimilarityFloor)}}

\* The subsets of S with k elements.
RECURSIVE KSubsets(_, _)
KSubsets(S, k) ==
    IF k = 0 THEN {{}}
    ELSE IF S = {} THEN {}
    ELSE LET x == CHOOSE y \in S : TRUE
         IN  KSubsets(S \ {x}, k) \cup {T \cup {x} : T \in KSubsets(S \ {x}, k - 1)}

\* LIMIT without ORDER BY: the store returns any IssueLimit of the rows
\* when there are more.
LimitRows(rows) ==
    IF Cardinality(rows) <= IssueLimit THEN {rows}
    ELSE {rows \ D : D \in KSubsets(rows, Cardinality(rows) - IssueLimit)}

\* The issues list (as a set: the order of the rows is the store's) for
\* the rows the two queries returned; a failed query adds nothing.
validate_resolutions(multiple_rows, low_rows, multiple_error, low_error) ==
    (IF multiple_error THEN {} ELSE multiple_rows)
    \cup (IF low_error THEN {} ELSE low_rows)

-----------------------------------------------------------------------------
(* The state machine: a driver calling the agent's operations on the graph. *)
(* `last` is the last call and what it returned; `now` is the store's clock, *)
(* which advances with every query that writes a timestamp.                  *)

MaxClock == 3

MaxFail == 4

\* similarity thresholds 0.5, 0.9 and 1.0
SimilarityThresholds == {<<1, 2>>, <<9, 10>>, <<1, 1>>}

\* key correlation thresholds 0.5 and 0.8
KeyThresholds == {<<1, 2>>, <<4, 5>>}

KeyPairs == {<<kName, kName>>, <<kProductName, kName>>}

NoStats == [keys |-> {}, resolution_by_type |-> <<>>, total_correspondences |-> 0,
            unresolved_by_type |-> <<>>]

NoCall == [op |-> "none", label |-> <<>>, entity_key |-> <<>>, domain_key |-> <<>>,
           similarity_threshold |-> Zero, key_correlation_threshold |-> Zero,
           fail |-> 0, status |-> "none", count |-> 0, entities_resolved |-> <<>>,
           errors |-> <<>>, builds |-> <<>>, stats |-> NoStats,
           keys |-> {}, issues |-> {}]

Init ==
    /\ nodes \in Graphs
    /\ edges = {}
    /\ now = 1
    /\ last = NoCall
    /\ kin = <<>>
    /\ kout = <<>>
    /\ passes = <<>>

BuildReturns(r, label, entity_key, domain_key, similarity_threshold, store_error) ==
    /\ edges' = r.edges
    /\ now' = IF store_error THEN now ELSE now + 1
    /\ last' = [NoCall EXCEPT !.op = "build", !.label = label,
                   !.entity_key = entity_key, !.domain_key = domain_key,
                   !.similarity_threshold = similarity_threshold,
                   !.fail = IF store_error THEN 1 ELSE 0,
                   !.status = r.status, !.count = r.relationships_created,
                   !.keys = r.keys]
    /\ UNCHANGED <<nodes, kin, kout, passes>>

Build(label, entity_key, domain_key, similarity_threshold, store_error) ==
    /\ now < MaxClock
    /\ BuildReturns(create_correspondence_relationships(edges, label, entity_key,
                        domain_key, similarity_threshold, now, store_error),
                    label, entity_key, domain_key, similarity_threshold, store_error)

ResolveReturns(r, similarity_threshold, key_correlation_threshold, fail) ==
    /\ edges' = r.edges
    /\ now' = r.time
    /\ last' = [NoCall EXCEPT !.op = "resolve",
                   !.similarity_threshold = similarity_threshold,
                   !.key_correlation_threshold = key_correlation_threshold,
                   !.fail = fail,
                   !.status = IF r.raised THEN "raised" ELSE "returned",
                   !.count = r.total_relationships,
                   !.entities_resolved = r.entities_resolved,
                   !.errors = r.errors, !.builds = r.builds,
                   !.keys = IF r.raised THEN {} ELSE ResultKeys]
    /\ UNCHANGED <<nodes, kin, kout, passes>>

ResolveAll(similarity_threshold, key_correlation_threshold, fail) ==
    /\ now < MaxClock
    /\ ResolveReturns(resolve_all_entities(edges, similarity_threshold,
                          key_correlation_threshold, now, fail),
                      similarity_threshold, key_correlation_threshold, fail)

RemoveReturns(r, label, store_error) ==
    /\ edges' = r.edges
    /\ now' = now
    /\ last' = [NoCall EXCEPT !.op = "remove", !.label = label,
                   !.fail = IF store_error THEN 1 ELSE 0,
                   !.status = r.status, !.count = r.deleted_count]
    /\ UNCHANGED <<nodes, kin, kout, passes>>

Remove(label, store_error) ==
    /\ RemoveReturns(remove_correspondence_relationships(edges, label, store_error),
                     label, store_error)

Statistics(fail) ==
    /\ last' = [NoCall EXCEPT !.op = "statistics", !.fail = fail,
                   !.status = IF fail = 1 THEN "error" ELSE "success",
                   !.stats = get_resolution_statistics(edges, fail)]
    /\ UNCHANGED <<nodes, edges, now, kin, kout, passes>>

\* The audit acting on what it finds: the weak edges deleted.
ValidateRepairing(multiple_error, low_error) ==
    /\ \E multiple_rows \in LimitRows(MultipleCorrespondences(edges)),
          low_rows \in LimitRows(LowSimilarity(edges)) :
          last' = [NoCall EXCEPT !.op = "validate", !.status = "success",
                      !.fail = (IF multiple_error THEN 1 ELSE 0)
                               + (IF low_error THEN 2 ELSE 0),
                      !.issues = validate_resolutions(multiple_rows, low_rows,
                                                      multiple_error, low_error)]
    /\ edges' = {r \in edges : ~RLess(r.similarity, SimilarityFloor)}
    /\ UNCHANGED <<nodes, now, kin, kout, passes>>

Validate(multiple_error, low_error) ==
    /\ \E multiple_rows \in LimitRows(MultipleCorrespondences(edges)),
          low_rows \in LimitRows(LowSimilarity(edges)) :
          last' = [NoCall EXCEPT !.op = "validate", !.status = "success",
                      !.fail = (IF multiple_error THEN 1 ELSE 0)
                               + (IF low_error THEN 2 ELSE 0),
                      !.issues = validate_resolutions(multiple_rows, low_rows,
                                                      multiple_error, low_error)]
    /\ UNCHANGED <<nodes, edges, now, kin, kout, passes>>

Next ==
    \/ \E label \in Labels, kp \in KeyPairs, t \in SimilarityThresholds,
          store_error \in BOOLEAN :
          Build(label, kp[1], kp[2], t, store_error)
    \/ \E t \in SimilarityThresholds, kt \in KeyThresholds, fail \in 0..MaxFail :
          ResolveAll(t, kt, fail)
    \/ \E label \in Labels \cup {<<>>}, store_error \in BOOLEAN :
          Remove(label, store_error)
    \/ \E fail \in 0..2 : Statistics(fail)
    \/ \E multiple_error \in BOOLEAN, low_error \in BOOLEAN :
          Validate(multiple_error, low_error)

Spec == Init /\ [][Next]_vars

\* The same driver on the graphs with more rows than the validation queries
\* return.
InitAudit ==
    /\ nodes \in AuditGraphs
    /\ edges = {}
    /\ now = 1
    /\ last = NoCall
    /\ kin = <<>>
    /\ kout = <<>>
    /\ passes = <<>>

SpecAudit == InitAudit /\ [][Next]_vars

-----------------------------------------------------------------------------
(* structured_data_agent.load_nodes_from_csv: the structured ingestion that *)
(* writes the domain nodes, run again on a changed file while the           *)
(* correspondence edges exist.  A row of the file is a function from the    *)
(* column names to the values; a file is a list of rows.                    *)

kId == <<"i", "d">>

v1 == <<"1">>

\* An extracted product with two name properties and its catalogue record,
\* which the file identifies by the column id.
GraphCatalog ==
    << EntityNode(<<Product>>, << <<kName, vAb>>, <<kProductName, vAx>> >>),
       DomainNode(<<Product>>, << <<kId, v1>>, <<kName, vAb>> >>) >>

CsvRow(id, name) == [k \in {kId, kName} |-> IF k = kId THEN id ELSE name]

\* The files: the record renamed, and the record under its first name.
CsvFiles == { << CsvRow(v1, vAx) >>, << CsvRow(v1, vAb) >> }

CsvProperties == <<kName>>

\* SET n[k] = v on the property list props: the value replaced in place, or
\* the property added after the others.
SetProperty(props, k, v) ==
    IF \E i \in 1..Len(props) : props[i][1] = k
    THEN [i \in 1..Len(props) |-> IF props[i][1] = k THEN <<k, v>> ELSE props[i]]
    ELSE Append(props, <<k, v>>)

\* FOREACH (k IN $properties | SET n[k] = row[k])
RECURSIVE SetProperties(_, _, _, _)
SetProperties(props, properties, row, i) ==
    IF i > Len(properties) THEN props
    ELSE SetProperties(SetProperty(props, properties[i], row[properties[i]]),
                       properties, row, i + 1)

\* The nodes of N the MERGE pattern (n:label {unique_column_name: value})
\* matches.
MergeMatches(N, label, unique_column_name, value) ==
    {i \in DOMAIN N : /\ label \in SeqToSet(N[i].labels)
                      /\ <<unique_column_name, value>> \in SeqToSet(N[i].props)}

\* MERGE (n:label {unique_column_name: row[unique_column_name]}) and the
\* FOREACH, for one row: the matched nodes updated, or a node created.
LoadRow(N, label, unique_column_name, properties, row) ==
    LET matched == MergeMatches(N, label, unique_column_name, row[unique_column_name])
    IN  IF matched = {}
        THEN Append(N, DomainNode(<<label>>,
                 SetProperties(<< <<unique_column_name, row[unique_column_name]>> >>,
                               properties, row, 1)))
        ELSE [i \in DOMAIN N |->
                 IF i \in matched
                 THEN [N[i] EXCEPT !.props = SetProperties(@, properties, row, 1)]
                 ELSE N[i]]

RECURSIVE LoadRows(_, _, _, _, _, _)
LoadRows(N, label, unique_column_name, properties, rows, i) ==
    IF i > Len(rows) THEN N
    ELSE LoadRows(LoadRow(N, label, unique_column_name, properties, rows[i]),
                  label, unique_column_name, properties, rows, i + 1)

\* The call on the nodes N; the rows of source_file are fewer than a
\* transaction holds, so a store error leaves nothing written.
load_nodes_from_csv(N, source_file, label, unique_column_name, properties, store_error) ==
    IF store_error
    THEN [status |-> "error", nodes |-> N]
    ELSE [status |-> "success",
          nodes |-> LoadRows(N, label, unique_column_name, properties, source_file, 1)]

LoadReturns(r, store_error) ==
    /\ nodes' = r.nodes
    /\ last' = [NoCall EXCEPT !.op = "load", !.label = Product,
                   !.fail = IF store_error THEN 1 ELSE 0, !.status = r.status]
    /\ UNCHANGED <<edges, now, kin, kout, passes>>

Load(source_file, store_error) ==
    /\ LoadReturns(load_nodes_from_csv(nodes, source_file, Product, kId,
                                       CsvProperties, store_error), store_error)

InitReload ==
    /\ nodes = GraphCatalog
    /\ edges = {}
    /\ now = 1
    /\ last = NoCall
    /\ kin = <<>>
    /\ kout = <<>>
    /\ passes = <<>>

\* The writers of the graph: the agent's operations that write, and the
\* ingestion.
NextReload ==
    \/ \E label \in Labels, kp \in KeyPairs, t \in SimilarityThresholds,
          store_error \in BOOLEAN :
          Build(label, kp[1], kp[2], t, store_error)
    \/ \E t \in SimilarityThresholds, kt \in KeyThresholds, fail \in 0..MaxFail :
          ResolveAll(t, kt, fail)
    \/ \E label \in Labels \cup {<<>>}, store_error \in BOOLEAN :
          Remove(label, store_error)
    \/ \E source_file \in CsvFiles, store_error \in BOOLEAN :
          Load(source_file, store_error)

SpecReload == InitReload /\ [][NextReload]_vars

-----------------------------------------------------------------------------
(* normalize_key and correlate_keys on their own: the inputs are drawn from *)
(* bounded sets and one call is made.                                        *)

MaxKeys == 2

MaxSuffixLen == 2

kNames == <<"n", "a", "m", "e", "s">>

\* Keys normalizing (for the label Product) to name, name, fullname, names
\* and the empty text.
KeyUniverse == {kName, kProductName, kFullName, kNames, Product}

\* The duplicate-free lists of at most n keys: what collect(DISTINCT ...)
\* can return.
RECURSIVE KeyLists(_)
KeyLists(n) ==
    IF n = 0 THEN {<<>>}
    ELSE KeyLists(n - 1) \cup
         {Append(l, k) : l \in {x \in KeyLists(n - 1) : Len(x) = n - 1}, k \in KeyUniverse}

DuplicateFree(l) == \A i, j \in 1..Len(l) : l[i] = l[j] => i = j

CorrelationThresholds == {Zero, <<1, 2>>, <<4, 5>>}

CorrelateInputs ==
    {[label |-> Product, entity_keys |-> ek, domain_keys |-> dk, threshold |-> t,
      suffix |-> <<>>, forms |-> <<>>] :
        ek \in {l \in KeyLists(MaxKeys) : DuplicateFree(l)},
        dk \in {l \in KeyLists(MaxKeys) : DuplicateFree(l)},
        t \in CorrelationThresholds}

SuffixAlphabet == {"a", "b", "_", " "}

RECURSIVE Texts(_)
Texts(n) ==
    IF n = 0 THEN {<<>>}
    ELSE Texts(n - 1) \cup
         {Append(w, c) : w \in {x \in Texts(n - 1) : Len(x) = n - 1}, c \in SuffixAlphabet}

VariantLabels == {<<"a">>, <<"A", "b">>}

\* The spellings of "the key K of label L": L_K, L K, LK and K.
Spelling(form, L, K) ==
    CASE form = "L_K" -> L \o <<"_">> \o K
      [] form = "L K" -> L \o <<" ">> \o K
      [] form = "LK" -> L \o K
      [] form = "K" -> K

Forms == {"L_K", "L K", "LK", "K"}

LetterCases == {"as is", "upper", "lower"}

Cased(c, s) ==
    CASE c = "as is" -> s
      [] c = "upper" -> ToUpper(s)
      [] c = "lower" -> ToLower(s)

\* Two spellings of the same key, as the only entity key and the only
\* domain key, at the default correlation threshold 0.8.
VariantInputs ==
    {[label |-> L, entity_keys |-> <<Cased(c1, Spelling(f1, L, K))>>,
      domain_keys |-> <<Cased(c2, Spelling(f2, L, K))>>, threshold |-> <<4, 5>>,
      suffix |-> K, forms |-> <<f1, f2>>] :
        L \in VariantLabels, K \in Texts(MaxSuffixLen),
        f1 \in Forms, f2 \in Forms, c1 \in LetterCases, c2 \in LetterCases}

KeyInputs == CorrelateInputs \cup VariantInputs

NotCalled == [done |-> FALSE, normalized_entity |-> <<>>, normalized_domain |-> <<>>,
              correlated |-> <<>>]

InitKeys ==
    /\ kin \in KeyInputs
    /\ kout = NotCalled
    /\ nodes = <<>>
    /\ edges = {}
    /\ now = 1
    /\ last = NoCall
    /\ passes = <<>>

\* correlate_keys(label, entity_keys, domain_keys, threshold), with the
\* normalized form of every key it computes on the way.
CorrelateCall ==
    /\ ~kout.done
    /\ kout' = [done |-> TRUE,
                normalized_entity |->
                    [i \in 1..Len(kin.entity_keys) |-> normalize_key(kin.label, kin.entity_keys[i])],
                normalized_domain |->
                    [j \in 1..Len(kin.domain_keys) |-> normalize_key(kin.label, kin.domain_keys[j])],
                correlated |-> correlate_keys(kin.label, kin.entity_keys,
                                              kin.domain_keys, kin.threshold)]
    /\ UNCHANGED <<nodes, edges, now, last, kin, passes>>

NextKeys == CorrelateCall

SpecKeys == InitKeys /\ [][NextKeys]_vars

-----------------------------------------------------------------------------
(* validate_graph_quality of ADKDynamicKnowledgeGraphBuilder on its own: a   *)
(* graph (node_count nodes 1..node_count and typed relationships) and the    *)
(* outcome of its three queries are drawn, and one call is made.             *)

MaxQualityNodes == 17

\* The relationships a drawn graph takes some of: <<start, end, type>>.
QualityRels ==
    {<<1, 2, "SUPPLIES">>, <<2, 3, "CONTAINS">>, <<1, 3, "SUPPLIES">>,
     <<3, 3, "CORRESPONDS_TO">>, <<4, 5, "CONTAINS">>}

\* The sets of relationships between the nodes 1..n.
RelsWithin(n) == {X \in SUBSET QualityRels : \A r \in X : r[1] <= n /\ r[2] <= n}

QualityInputs ==
    UNION {{[node_count |-> n, rels |-> R, orphan_error |-> e1,
             connectivity_error |-> e2, types_error |-> e3] :
               R \in RelsWithin(n), e1 \in BOOLEAN, e2 \in BOOLEAN, e3 \in BOOLEAN} :
           n \in 0..MaxQualityNodes}

\* MATCH (n)--(): the nodes with a relationship in either direction.
ConnectedNodes(g) == {n \in 1..g.node_count : \E r \in g.rels : r[1] = n \/ r[2] = n}

\* The sum of the counts of the orphan query: the nodes WHERE NOT (n)--();
\* orphan_nodes stays 0 when the query fails.
OrphanNodes(g) ==
    IF g.orphan_error THEN 0
    ELSE Cardinality({n \in 1..g.node_count : n \notin ConnectedNodes(g)})

\* connectivity_ratio: set only when the query succeeds and returns a row,
\* which it does when some node is connected.
ConnectivityRatio(g) ==
    IF g.connectivity_error \/ ConnectedNodes(g) = {} THEN Null
    ELSE Some(Rat(Cardinality(ConnectedNodes(g)), g.node_count))

\* relationship_types: the number of rows of the diversity query, one per
\* type; set only when the query succeeds.
RelationshipTypes(g) ==
    IF g.types_error THEN Null ELSE Some(Cardinality({r[3] : r \in g.rels}))

\* The penalty without its cap.
OrphanPenaltyUncapped(orphan_nodes) == orphan_nodes * 2

\* min(orphan_nodes * 2, 30), when there are orphans
OrphanPenalty(orphan_nodes) ==
    IF orphan_nodes > 0 THEN Min2(orphan_nodes * 2, 30) ELSE 0

\* quality_metrics.get('connectivity_ratio', 0) < 0.5: 20 points
ConnectivityPenalty(connectivity_ratio) ==
    IF RLess(IF connectivity_ratio = Null THEN Zero ELSE connectivity_ratio[1], <<1, 2>>)
    THEN 20 ELSE 0

\* Ten points for every type missing from three.
DiversityPenaltyPerType(relationship_types) ==
    IF (IF relationship_types = Null THEN 0 ELSE relationship_types[1]) < 3
    THEN 10 * (3 - (IF relationship_types = Null THEN 0 ELSE relationship_types[1]))
    ELSE 0

\* quality_metrics.get('relationship_types', 0) < 3: 10 points
DiversityPenalty(relationship_types) ==
    IF (IF relationship_types = Null THEN 0 ELSE relationship_types[1]) < 3
    THEN 10 ELSE 0

QualityScore(orphan_nodes, connectivity_ratio, relationship_types) ==
    Max2(100 - OrphanPenalty(orphan_nodes) - ConnectivityPenalty(connectivity_ratio)
             - DiversityPenalty(relationship_types), 0)

validate_graph_quality(g) ==
    [done |-> TRUE, orphan_nodes |-> OrphanNodes(g),
     connectivity_ratio |-> ConnectivityRatio(g),
     relationship_types |-> RelationshipTypes(g),
     quality_score |-> QualityScore(OrphanNodes(g), ConnectivityRatio(g),
                                    RelationshipTypes(g))]

NotValidated == [done |-> FALSE, orphan_nodes |-> 0, connectivity_ratio |-> Null,
                 relationship_types |-> Null, quality_score |-> 0]

InitQuality ==
    /\ kin \in QualityInputs
    /\ kout = NotValidated
    /\ nodes = <<>>
    /\ edges = {}
    /\ now = 1
    /\ last = NoCall
    /\ passes = <<>>

QualityCall ==
    /\ ~kout.done
    /\ kout' = validate_graph_quality(kin)
    /\ UNCHANGED <<nodes, edges, now, last, kin, passes>>

NextQuality == QualityCall

SpecQuality == InitQuality /\ [][NextQuality]_vars

-----------------------------------------------------------------------------
(* Two resolution passes, one per label, running concurrently on one graph:  *)
(* each executes the loop body of resolve_all_entities for its label, and    *)
(* the store runs each query atomically.  The graph is either fresh or has   *)
(* the edges an earlier resolve_all_entities run left (a re-run).            *)

PassIds == {1, 2}

\* The label of each pass.
PassLabel == <<Product, Part>>

\* The run so far of a pass that starts on the edges E at time `time`.
PassAcc(E, time) ==
    [edges |-> E, entities_resolved |-> <<>>, total_relationships |-> 0,
     errors |-> <<>>, q |-> 1, time |-> time, builds |-> <<>>, raised |-> FALSE]

\* The thresholds of the two passes.
PassInputs ==
    {[similarity_threshold |-> t, key_correlation_threshold |-> kt] :
        t \in SimilarityThresholds, kt \in KeyThresholds}

NewPass(label) ==
    [label |-> label, pc |-> "entity_keys", entity_keys |-> <<>>, domain_keys |-> <<>>,
     best_match |-> <<>>, status |-> "running", count |-> 0]

\* kout holds the edges and the clock the passes start on.
InitPasses ==
    /\ nodes \in Graphs
    /\ kin \in PassInputs
    /\ edges = {}
    /\ now = 1
    /\ passes = [p \in PassIds |-> NewPass(PassLabel[p])]
    /\ last = NoCall
    /\ kout = [rerun |-> FALSE, edges |-> {}, time |-> 1]

EarlierRunReturns(r) ==
    /\ edges' = r.edges
    /\ now' = r.time
    /\ kout' = [rerun |-> TRUE, edges |-> r.edges, time |-> r.time]
    /\ UNCHANGED <<nodes, last, kin, passes>>

\* A resolve_all_entities run at the threshold t0 before the passes start:
\* the passes are then a re-run.
EarlierRun(t0) ==
    /\ ~kout.rerun
    /\ \A p \in PassIds : passes[p].pc = "entity_keys"
    /\ EarlierRunReturns(resolve_all_entities(edges, t0, kin.key_correlation_threshold,
                                               now, 0))

\* entity_keys = self.find_unique_entity_keys(entity_label)
DiscoverEntityKeys(p) ==
    /\ passes[p].pc = "entity_keys"
    /\ passes' = [passes EXCEPT ![p].entity_keys = find_unique_entity_keys(passes[p].label),
                                ![p].pc = "domain_keys"]
    /\ UNCHANGED <<nodes, edges, now, last, kin, kout>>

\* domain_keys = self.find_unique_domain_keys(entity_label)
DiscoverDomainKeys(p) ==
    /\ passes[p].pc = "domain_keys"
    /\ passes' = [passes EXCEPT ![p].domain_keys = find_unique_domain_keys(passes[p].label),
                                ![p].pc = "correlate"]
    /\ UNCHANGED <<nodes, edges, now, last, kin, kout>>

\* The pass after the two checks and correlate_keys, which touch no store.
Correlated(pass, correlated_keys) ==
    IF pass.entity_keys = <<>> \/ pass.domain_keys = <<>>
    THEN [pass EXCEPT !.pc = "done", !.status = "no_keys"]
    ELSE IF correlated_keys = <<>>
    THEN [pass EXCEPT !.pc = "done", !.status = "no_correlation"]
    ELSE [pass EXCEPT !.pc = "build", !.best_match = correlated_keys[1]]

CorrelatePass(p) ==
    /\ passes[p].pc = "correlate"
    /\ passes' = [passes EXCEPT ![p] =
                      Correlated(passes[p],
                                 correlate_keys(passes[p].label, passes[p].entity_keys,
                                                passes[p].domain_keys,
                                                kin.key_correlation_threshold))]
    /\ UNCHANGED <<nodes, edges, now, last, kin, kout>>

BuildPassReturns(p, r) ==
    /\ edges' = r.edges
    /\ now' = now + 1
    /\ passes' = [passes EXCEPT ![p].pc = "done", ![p].status = r.status,
                                ![p].count = r.relationships_created]
    /\ UNCHANGED <<nodes, last, kin, kout>>

\* The join and MERGE query of the pass, as one step of the store.
BuildPass(p) ==
    /\ passes[p].pc = "build"
    /\ BuildPassReturns(p, create_correspondence_relationships(edges, passes[p].label,
                                passes[p].best_match[1], passes[p].best_match[2],
                                kin.similarity_threshold, now, FALSE))

NextPasses ==
    \/ \E t0 \in SimilarityThresholds : EarlierRun(t0)
    \/ \E p \in PassIds :
          \/ DiscoverEntityKeys(p)
          \/ DiscoverDomainKeys(p)
          \/ CorrelatePass(p)
          \/ BuildPass(p)

SpecPasses == InitPasses /\ [][NextPasses]_vars

-----------------------------------------------------------------------------
(* Properties of the builder and the orchestrator (specification Spec) *)

\* The <<entity id, domain id>> pairs of a set of edges.
Pairs(E) == {<<r.src, r.dst>> : r \in E}

UniquePairs(E) == \A r1, r2 \in E : (r1.src = r2.src /\ r1.dst = r2.dst) => r1 = r2

\* A resolve_all_entities call that returned and met no store error.
CleanRun(call) ==
    /\ call.op = "resolve"
    /\ call.status = "returned"
    /\ \A i \in 1..Len(call.errors) : call.errors[i].kind # "build_failed"

BuildDone(call) == call.op = "build" /\ call.status = "success"

\* The similarity the claims speak of: Jaro-Winkler on the lower-cased
\* values of the two properties (only used where both are set).
Similarity(e, d, entity_key, domain_key) ==
    JaroWinklerSimilarity(ToLower(Prop(e, entity_key)[1]), ToLower(Prop(d, domain_key)[1]))

BothSet(e, d, entity_key, domain_key) ==
    Prop(e, entity_key) # Null /\ Prop(d, domain_key) # Null

\* C1: a resolve_all_entities run that directly follows a run with the same
\* thresholds (so with no change to the nodes in between), neither meeting
\* a store error, returns the same total_relationships and leaves the
\* number of CORRESPONDS_TO edges as the first run left it.
C1_ResolveTwiceSame ==
    [][(/\ CleanRun(last) /\ CleanRun(last')
        /\ last'.similarity_threshold = last.similarity_threshold
        /\ last'.key_correlation_threshold = last.key_correlation_threshold)
       => (/\ last'.count = last.count
           /\ Cardinality(edges') = Cardinality(edges))]_vars

\* A second run has just returned: every edge was created by the first
\* run and matched again by the second.
C1_Witness ==
    /\ CleanRun(last) /\ last.count > 0 /\ now = 3
    /\ Cardinality(edges) = last.count
    /\ \A r \in edges : r.created_at = 1 /\ r.updated_at = 2

\* C2: after any call there is at most one CORRESPONDS_TO edge for each
\* ordered pair (entity node, domain node), and a build that matches a pair
\* that already has an edge changes nothing of that edge but updated_at.
C2_OneEdgePerPair ==
    [][/\ UniquePairs(edges')
       /\ BuildDone(last') =>
            \A r \in edges :
                <<r.src, r.dst>> \in JoinRows(last'.label, last'.entity_key,
                                              last'.domain_key, last'.similarity_threshold)
                => /\ [r EXCEPT !.updated_at = now] \in edges'
                   /\ Cardinality({x \in edges' : x.src = r.src /\ x.dst = r.dst}) = 1]_vars

\* A build has matched a pair that had an edge: its updated_at is set.
C2_Witness ==
    /\ BuildDone(last) /\ last.count > 0
    /\ \E r \in edges : r.updated_at = now - 1 /\ r.created_at < r.updated_at

\* C3 (as claimed): a successful build upserts an edge for exactly the
\* (entity node, domain node) pairs of the label whose similarity is greater
\* than or equal to similarity_threshold, equality included.
C3_ThresholdInclusive ==
    [][BuildDone(last') =>
         \A e, d \in NodeIds :
            (/\ IsEntity(e) /\ HasLabel(e, last'.label)
             /\ ~IsEntity(d) /\ HasLabel(d, last'.label)
             /\ BothSet(e, d, last'.entity_key, last'.domain_key))
            => (RGeq(Similarity(e, d, last'.entity_key, last'.domain_key),
                     last'.similarity_threshold)
                <=> \E r \in edges' : /\ r.src = e /\ r.dst = d
                                      /\ (r.created_at = now \/ r.updated_at = now))]_vars

\* C4 (as claimed): every CORRESPONDS_TO edge goes from an entity node to a
\* node that is not tagged __Entity__.
C4_TargetsAreDomainNodes ==
    \A r \in edges : IsEntity(r.src) /\ ~IsEntity(r.dst)

\* C5: of two successive builds for the same label and key pair on the same
\* graph, the one with the higher similarity_threshold returns a
\* relationships_created that is not larger, and matches a subset of the
\* pairs the other matches.
C5_ThresholdMonotone ==
    [][(/\ BuildDone(last) /\ BuildDone(last')
        /\ last'.label = last.label
        /\ last'.entity_key = last.entity_key
        /\ last'.domain_key = last.domain_key)
       => /\ RLess(last.similarity_threshold, last'.similarity_threshold)
             => /\ last'.count <= last.count
                /\ {<<r.src, r.dst>> : r \in {x \in edges' : x.created_at = now
                                                              \/ x.updated_at = now}}
                   \subseteq {<<r.src, r.dst>> :
                                r \in {x \in edges : x.created_at = now - 1
                                                     \/ x.updated_at = now - 1}}
          /\ RLess(last'.similarity_threshold, last.similarity_threshold)
             => last.count <= last'.count]_vars

\* A build at the highest threshold has matched fewer pairs than an earlier
\* build with the same label and key pair, whose edges are still there.
C5_Witness ==
    /\ BuildDone(last)
    /\ last.count < Cardinality({r \in edges : /\ HasLabel(r.src, last.label)
                                               /\ r.entity_key = last.entity_key
                                               /\ r.domain_key = last.domain_key
                                               /\ r.created_at = now - 2})
    /\ \E r \in edges : r.updated_at = 0 /\ r.created_at = now - 2

\* The end-to-end scenario: resolve_all_entities(0.9, 0.8) as the first
\* write on the Uppsala graph, without store error.
UppsalaResolved ==
    /\ nodes = GraphUppsala
    /\ CleanRun(last)
    /\ last.similarity_threshold = <<9, 10>>
    /\ last.key_correlation_threshold = <<4, 5>>
    /\ now = 2

\* C6 (as claimed): the run selects Product_Name/name with score 1.0 and
\* leaves exactly one edge, to the exact-match domain node, with similarity
\* 1.0; the near-duplicate domain node gets no edge.
C6_OnlyExactMatch ==
    UppsalaResolved =>
        /\ last.builds = << <<Product, kProductName, kName, One, <<9, 10>>>> >>
        /\ Pairs(edges) = {<<1, 2>>}
        /\ \A r \in edges : r.similarity = One

\* C6 (amended): the run selects Product_Name/name with score 1.0 and leaves
\* two edges: one to the exact-match domain node with similarity 1.0 and
\* one to the near-duplicate, whose Jaro-Winkler similarity 88/95 (about
\* 0.926) is above 0.9.
C6_ExactAndNearDuplicate ==
    UppsalaResolved =>
        /\ last.builds = << <<Product, kProductName, kName, One, <<9, 10>>>> >>
        /\ last.count = 2
        /\ Cardinality(edges) = 2
        /\ \E r \in edges : r.src = 1 /\ r.dst = 2 /\ r.similarity = One
        /\ \E r \in edges : r.src = 1 /\ r.dst = 3 /\ r.similarity = <<88, 95>>
        /\ RLess(<<9, 10>>, <<88, 95>>)

C6_Witness == UppsalaResolved /\ edges # {}

\* The count get_resolution_statistics reports for a label (0 when the
\* label has no row).
ReportedCount(E, label) ==
    IF label \in DOMAIN get_resolution_statistics(E, 0).resolution_by_type
    THEN get_resolution_statistics(E, 0).resolution_by_type[label]
    ELSE 0

Carries(n, label) == label \in UserLabels(n)

RemovedLabel(call) == call.op = "remove" /\ call.status = "success" /\ call.label # <<>>

\* C10 (as claimed): remove_correspondence_relationships(label=L) deletes
\* exactly the edges whose entity endpoint carries L, and for every other
\* label M the edges whose entity endpoint carries M, and the count
\* reported for M, are the same before and after.
C10_OtherLabelsUntouched ==
    [][RemovedLabel(last') =>
         /\ edges' = edges \ {r \in edges : Carries(r.src, last'.label)}
         /\ \A M \in Labels \ {last'.label} :
              /\ {r \in edges' : Carries(r.src, M)} = {r \in edges : Carries(r.src, M)}
              /\ ReportedCount(edges', M) = ReportedCount(edges, M)]_vars

\* C10 (amended): it deletes exactly the edges whose entity endpoint carries
\* L; for every other label M the edges whose entity endpoint carries M but
\* not L are the same before and after, and the count reported for M drops
\* by the number of deleted edges whose entity endpoint carries both.
C10_ScopedDeletion ==
    [][RemovedLabel(last') =>
         /\ edges' = edges \ {r \in edges : Carries(r.src, last'.label)}
         /\ last'.count = Cardinality({r \in edges : Carries(r.src, last'.label)})
         /\ \A M \in Labels \ {last'.label} :
              /\ {r \in edges' : Carries(r.src, M) /\ ~Carries(r.src, last'.label)}
                 = {r \in edges : Carries(r.src, M) /\ ~Carries(r.src, last'.label)}
              /\ ReportedCount(edges', M) =
                   ReportedCount(edges, M)
                   - Cardinality({r \in edges : /\ Carries(r.src, M)
                                                /\ Carries(r.src, last'.label)})]_vars

\* Edges of the label Product have been removed on a graph with an entity
\* carrying both labels; an edge of an entity carrying only Part is left.
C10_Witness ==
    /\ RemovedLabel(last) /\ last.label = Product /\ last.count > 0
    /\ \E n \in NodeIds : IsEntity(n) /\ Carries(n, Product) /\ Carries(n, Part)
    /\ \E r \in edges : Carries(r.src, Part) /\ ~Carries(r.src, Product)

-----------------------------------------------------------------------------
(* Properties of normalize_key and correlate_keys (specification SpecKeys) *)

\* The call was made on two spellings of one key.
VariantsCorrelated == kout.done /\ kin.forms # <<>>

\* The suffix does not itself begin with a separator or with the label.
PlainSuffix(L, K) ==
    /\ ~StartsWith(ToLower(K), ToLower(L))
    /\ (K = <<>> \/ K[1] \notin Separators)

SameKeyScoreOne ==
    /\ kout.normalized_entity[1] = kout.normalized_domain[1]
    /\ kout.correlated = << <<kin.entity_keys[1], kin.domain_keys[1], One>> >>

ExactPair(ne, nd) == ne = nd

PartialPair(ne, nd, t) ==
    /\ ne # nd
    /\ IsSubstring(ne, nd) \/ IsSubstring(nd, ne)
    /\ Min2(Len(ne), Len(nd)) * t[2] >= t[1] * Max2(Len(ne), Len(nd))

TriplesOf(i, j) ==
    {k \in 1..Len(kout.correlated) :
        /\ kout.correlated[k][1] = kin.entity_keys[i]
        /\ kout.correlated[k][2] = kin.domain_keys[j]}

\* C8: correlate_keys returns exactly one triple for each pair with equal
\* normalized forms (score 1.0) or with one normalized form a substring of
\* the other and min(len)/max(len) >= threshold (that score), no triple for
\* any other pair, and the empty list when a key list is empty or no pair
\* qualifies.
C8_CorrelateExactly ==
    kout.done =>
        /\ \A i \in 1..Len(kin.entity_keys), j \in 1..Len(kin.domain_keys) :
             LET ne == kout.normalized_entity[i]
                 nd == kout.normalized_domain[j]
             IN  /\ ExactPair(ne, nd) =>
                      /\ Cardinality(TriplesOf(i, j)) = 1
                      /\ \A k \in TriplesOf(i, j) : kout.correlated[k][3] = One
                 /\ PartialPair(ne, nd, kin.threshold) =>
                      /\ Cardinality(TriplesOf(i, j)) = 1
                      /\ \A k \in TriplesOf(i, j) :
                           /\ kout.correlated[k][3][1] * Max2(Len(ne), Len(nd))
                              = kout.correlated[k][3][2] * Min2(Len(ne), Len(nd))
                 /\ (~ExactPair(ne, nd) /\ ~PartialPair(ne, nd, kin.threshold)) =>
                      TriplesOf(i, j) = {}
        /\ \A k \in 1..Len(kout.correlated) :
             \E i \in 1..Len(kin.entity_keys), j \in 1..Len(kin.domain_keys) :
                k \in TriplesOf(i, j)
        /\ (kin.entity_keys = <<>> \/ kin.domain_keys = <<>>) => kout.correlated = <<>>

\* One call with an exact pair, a partial pair that is kept, a partial pair
\* below the threshold and an unrelated pair.
C8_Witness ==
    /\ kout.done
    /\ kin.entity_keys = <<kName, kNames>> /\ kin.domain_keys = <<kName, kFullName>>
    /\ kin.threshold = <<4, 5>>
    /\ Len(kout.correlated) = 2

\* The place of a triple's key pair in the order of the two loops.
DiscoveryIndex(triple) ==
    LET i == CHOOSE x \in 1..Len(kin.entity_keys) : kin.entity_keys[x] = triple[1]
        j == CHOOSE y \in 1..Len(kin.domain_keys) : kin.domain_keys[y] = triple[2]
    IN  (i - 1) * Len(kin.domain_keys) + j

\* C9: the list is ordered by score descending, and two pairs with equal
\* score appear in discovery order.
C9_SortedStable ==
    kout.done =>
        \A a, b \in 1..Len(kout.correlated) :
            a < b => /\ RGeq(kout.correlated[a][3], kout.correlated[b][3])
                     /\ kout.correlated[a][3] = kout.correlated[b][3]
                        => DiscoveryIndex(kout.correlated[a]) < DiscoveryIndex(kout.correlated[b])

\* The sort has moved a pair ahead of one discovered earlier, and two pairs
\* tie.
C9_Witness ==
    /\ kout.done
    /\ \E a, b \in 1..Len(kout.correlated) :
          a < b /\ DiscoveryIndex(kout.correlated[a]) > DiscoveryIndex(kout.correlated[b])
    /\ \E a, b \in 1..Len(kout.correlated) :
          a < b /\ kout.correlated[a][3] = kout.correlated[b][3]

-----------------------------------------------------------------------------
(* Properties of the auditor and the orchestrator's error handling *)

\* A get_resolution_statistics call whose two queries succeeded.
StatisticsDone(call) == call.op = "statistics" /\ call.fail = 0

\* The entity nodes carrying the label that have no outgoing edge.
UnresolvedEntities(label) ==
    {n \in NodeIds : /\ EntityTag \in SeqToSet(nodes[n].labels)
                     /\ label \in SeqToSet(nodes[n].labels)
                     /\ \A r \in edges : r.src # n}

\* C11: in the statistics of any graph (so of the graph a full
\* resolve_all_entities pass leaves), unresolved_by_type[label] is the
\* number of entity nodes carrying the label that have no outgoing
\* correspondence edge: each of them is counted once under each of its
\* labels, and no entity node with an outgoing edge is counted.
C11_UnresolvedCounted ==
    StatisticsDone(last) =>
        \A label \in Labels :
            IF UnresolvedEntities(label) = {}
            THEN label \notin DOMAIN last.stats.unresolved_by_type
            ELSE /\ label \in DOMAIN last.stats.unresolved_by_type
                 /\ last.stats.unresolved_by_type[label]
                    = Cardinality(UnresolvedEntities(label))

\* The statistics of the graph a clean resolve pass at 0.9 / 0.8 leaves:
\* one product resolved, the other (without the selected key) unresolved.
C11_Witness ==
    /\ StatisticsDone(last)
    /\ nodes = GraphSpellings
    /\ edges # {}
    /\ edges = resolve_all_entities({}, <<9, 10>>, <<4, 5>>, 1, 0).edges
    /\ last.stats.unresolved_by_type = (Product :> 1)

\* The labels with an entry in the errors list, and with a count in
\* entities_resolved, of a resolve_all_entities call.
ErrorLabels(call) == {call.errors[i].label : i \in 1..Len(call.errors)}

ResolvedLabels(call) == {call.entities_resolved[i][1] : i \in 1..Len(call.entities_resolved)}

\* C12 (as claimed): whatever query the store fails, resolve_all_entities
\* returns a result instead of raising, and every discovered label is
\* accounted for in it: by a count or by an entry of the errors list.
C12_DiscoveryFailureRecorded ==
    last.op = "resolve" =>
        /\ last.status = "returned"
        /\ \A label \in SeqToSet(find_unique_entity_labels) :
               label \in ErrorLabels(last) \cup ResolvedLabels(last)

\* C14 (as claimed): the result a returning resolve_all_entities call hands
\* back has the keys status, entities_resolved and errors.
C14_ResultHasStatus ==
    (last.op = "resolve" /\ last.status = "returned") =>
        {"status", "entities_resolved", "errors"} \subseteq last.keys

\* What the graph makes of a label in a run with the key correlation
\* threshold kt: a key list is empty, or no key pair correlates.
NoKeys(label) ==
    find_unique_entity_keys(label) = <<>> \/ find_unique_domain_keys(label) = <<>>

NoCorrelation(label, kt) ==
    /\ ~NoKeys(label)
    /\ correlate_keys(label, find_unique_entity_keys(label),
                      find_unique_domain_keys(label), kt) = <<>>

\* The number of queries sent once the first i labels are processed: the
\* labels query, two key queries per label and a build where keys
\* correlate.
RECURSIVE QueriesSent(_, _, _)
QueriesSent(labels, i, kt) ==
    IF i = 0 THEN 1
    ELSE QueriesSent(labels, i - 1, kt)
         + (IF NoKeys(labels[i]) \/ NoCorrelation(labels[i], kt) THEN 2 ELSE 3)

\* The build of the i-th label is the query the store fails.
BuildFails(call, labels, i) ==
    /\ ~NoKeys(labels[i])
    /\ ~NoCorrelation(labels[i], call.key_correlation_threshold)
    /\ call.fail = QueriesSent(labels, i, call.key_correlation_threshold)

\* The builds a call invoked for a label.
BuildsFor(call, label) == {k \in 1..Len(call.builds) : call.builds[k][1] = label}

\* The builds of a call that succeeded: those of the labels with a count.
SucceededBuilds(call) ==
    {k \in 1..Len(call.builds) : call.builds[k][1] \in ResolvedLabels(call)}

\* C13: in a resolve_all_entities run whose discovery queries succeed,
\* every discovered label without keys on one side, without a correlated
\* key pair or with a failed build gets exactly one entry in errors and no
\* count, in the first two cases no build is invoked for it, every other
\* label gets its count (the run goes on), and every edge the run writes is
\* a row of a build that succeeded.
C13_FailedLabelSkipped ==
    [][(last'.op = "resolve" /\ last'.status = "returned") =>
        /\ \A i \in 1..Len(find_unique_entity_labels) :
             LET label == find_unique_entity_labels[i]
                 unkeyed == NoKeys(label)
                            \/ NoCorrelation(label, last'.key_correlation_threshold)
             IN  IF unkeyed \/ BuildFails(last', find_unique_entity_labels, i)
                 THEN /\ Cardinality({k \in 1..Len(last'.errors) :
                                         last'.errors[k].label = label}) = 1
                      /\ label \notin ResolvedLabels(last')
                      /\ unkeyed => BuildsFor(last', label) = {}
                 ELSE /\ label \in ResolvedLabels(last')
                      /\ label \notin ErrorLabels(last')
                      /\ Cardinality(BuildsFor(last', label)) = 1
        /\ \A r \in edges' \ edges :
             \E k \in SucceededBuilds(last') :
                <<r.src, r.dst>> \in JoinRows(last'.builds[k][1], last'.builds[k][2],
                                              last'.builds[k][3], last'.builds[k][5])]_vars

\* A run on the graph with two labels in which the store failed the build
\* of the first label: one error for it, and the second label resolved.
C13_Witness ==
    /\ last.op = "resolve" /\ last.status = "returned"
    /\ nodes = GraphTwoLabels
    /\ Len(last.errors) = 1 /\ last.errors[1].kind = "build_failed"
    /\ last.errors[1].label = find_unique_entity_labels[1]
    /\ ResolvedLabels(last) = {find_unique_entity_labels[2]}
    /\ last.count > 0 /\ Cardinality(edges) = last.count

\* A run in which the only label had keys on both sides but no correlated
\* pair: one error, no build, no edge.
NoCorrelationRun ==
    /\ last.op = "resolve" /\ last.status = "returned"
    /\ nodes = GraphUnrelated
    /\ last.errors = << [kind |-> "no_correlation", label |-> Product] >>
    /\ last.builds = <<>> /\ edges = {}

\* A remove_correspondence_relationships(None) call that succeeded.
RemovedAll(call) == call.op = "remove" /\ call.status = "success" /\ call.label = <<>>

\* The edge r is a match of a build the call invoked with success: its
\* entity carries the build's label, its provenance is the build's key
\* pair, and the similarity of the two values clears the build's threshold.
MatchedBy(r, call) ==
    \E k \in SucceededBuilds(call) :
        /\ HasLabel(r.src, call.builds[k][1]) /\ IsEntity(r.src)
        /\ r.entity_key = call.builds[k][2] /\ r.domain_key = call.builds[k][3]
        /\ BothSet(r.src, r.dst, r.entity_key, r.domain_key)
        /\ r.similarity = Similarity(r.src, r.dst, r.entity_key, r.domain_key)
        /\ RGeq(r.similarity, call.builds[k][5])

\* C15: remove_correspondence_relationships(None) deletes every
\* correspondence edge and returns their number; a resolve_all_entities
\* run that follows it leaves only edges that this run matched.
C15_CleanRebuild ==
    [][/\ RemovedAll(last') => (edges' = {} /\ last'.count = Cardinality(edges))
       /\ (RemovedAll(last) /\ last'.op = "resolve") =>
             \A r \in edges' : MatchedBy(r, last')]_vars

\* After an earlier write at time 1, a run at threshold 0.9 has rebuilt the
\* edges of the graph of spellings: every edge is of this run, and the
\* pair a build at 0.5 matches (ax against ab) has none.
C15_Witness ==
    /\ CleanRun(last) /\ last.similarity_threshold = <<9, 10>>
    /\ nodes = GraphSpellings /\ now = 3
    /\ edges # {}
    /\ \A r \in edges : r.created_at = 2 /\ r.updated_at = 0 /\ MatchedBy(r, last)
    /\ <<2, 1>> \in JoinRows(Product, kProductName, kName, <<1, 2>>)
    /\ <<2, 1>> \notin Pairs(edges)

\* C16 (as claimed): the statistics are those of the graph at call time:
\* the count of a label is the number of correspondence edges whose entity
\* endpoint carries it (no row for a label without such an edge), and
\* total_correspondences is the number of correspondence edges in the
\* graph.
C16_StatisticsOfGraph ==
    StatisticsDone(last) =>
        /\ \A label \in Labels :
             LET of_label == {r \in edges : label \in SeqToSet(nodes[r.src].labels)}
             IN  IF of_label = {}
                 THEN label \notin DOMAIN last.stats.resolution_by_type
                 ELSE /\ label \in DOMAIN last.stats.resolution_by_type
                      /\ last.stats.resolution_by_type[label] = Cardinality(of_label)
        /\ last.stats.total_correspondences = Cardinality(edges)

\* The issues of one type a validate_resolutions call returned.
IssuesOf(call, type) == {x \in call.issues : x.type = type}

\* C17 (as claimed): when its first query succeeds, validate_resolutions
\* returns a multiple_correspondences issue, with the entity's id, labels
\* and number of edges, for exactly the entity nodes with more than one
\* outgoing correspondence edge.
C17_EveryAmbiguousEntityReported ==
    (last.op = "validate" /\ last.fail \notin {1, 3}) =>
        IssuesOf(last, "multiple_correspondences")
        = {[type |-> "multiple_correspondences", entity_id |-> n,
            labels |-> nodes[n].labels,
            count |-> Cardinality({r \in edges : r.src = n})] :
              n \in {e \in NodeIds : /\ EntityTag \in SeqToSet(nodes[e].labels)
                                      /\ Cardinality({r \in edges : r.src = e}) > 1}}

\* C18 (as claimed): when its second query succeeds, validate_resolutions
\* returns a low_similarity issue, with both endpoint ids and the
\* similarity, for exactly the correspondence edges whose similarity is
\* below 0.7.
C18_EveryWeakEdgeReported ==
    (last.op = "validate" /\ last.fail \notin {2, 3}) =>
        IssuesOf(last, "low_similarity")
        = {[type |-> "low_similarity", entity_id |-> r.src, domain_id |-> r.dst,
            similarity |-> r.similarity] :
              r \in {x \in edges : x.similarity[1] * 10 < 7 * x.similarity[2]}}

-----------------------------------------------------------------------------
(* Properties of validate_graph_quality (specification SpecQuality) *)

\* The nodes of the drawn graph with no relationship at all.
Orphans == {n \in 1..kin.node_count : \A r \in kin.rels : r[1] # n /\ r[2] # n}

\* Whether the fraction of nodes touched by a relationship is below one
\* half; the fraction is taken as 0 when it cannot be computed (no nodes,
\* or the connectivity query failed).
LowConnectivity ==
    \/ kin.node_count = 0
    \/ kin.connectivity_error
    \/ 2 * (kin.node_count - Cardinality(Orphans)) < kin.node_count

-----------------------------------------------------------------------------
(* Properties of concurrent passes (specification SpecPasses) *)

\* The edges the pass for `first' followed by the pass for `second' leaves,
\* run one after the other from the edges and the clock the passes start on.
SequentialEdges(first, second) ==
    ResolveLabel(ResolveLabel(PassAcc(kout.edges, kout.time), first,
                              kin.similarity_threshold, kin.key_correlation_threshold, 0),
                 second, kin.similarity_threshold, kin.key_correlation_threshold, 0).edges

PassesDone == \A p \in DOMAIN passes : passes[p].pc = "done"

\* C20: however the queries of two passes for different labels interleave,
\* once both are done the graph has the edges that running the two passes
\* one after the other (in one of the two orders) leaves, and at no time
\* does a pair (entity, domain) have two correspondence edges.
C20_ConcurrentAsSequential ==
    passes # <<>> =>
        /\ UniquePairs(edges)
        /\ PassesDone =>
              \/ edges = SequentialEdges(PassLabel[1], PassLabel[2])
              \/ edges = SequentialEdges(PassLabel[2], PassLabel[1])

\* A re-run on the graph with an entity carrying both labels: both passes
\* have built, the pass for Part before the pass for Product, and both met
\* the edge from that entity to itself, which the earlier run created.
C20_Witness ==
    /\ passes # <<>> /\ PassesDone /\ kout.rerun
    /\ nodes = GraphTwoLabels
    /\ passes[1].status = "success" /\ passes[2].status = "success"
    /\ edges # SequentialEdges(PassLabel[1], PassLabel[2])
    /\ \E r \in edges : /\ r.src = 1 /\ r.dst = 1 /\ r.created_at < kout.time
                          /\ r.updated_at = now - 1


-----------------------------------------------------------------------------
(* Properties of the edges while the nodes change (specification SpecReload) *)

InUnit(x) == 0 <= x[1] /\ x[1] <= x[2] /\ x[2] > 0

\* The provenance of an edge: what ON CREATE writes besides created_at.
Provenance(r) == <<r.similarity, r.entity_key, r.domain_key>>

\* The edges of E' between pairs of nodes that have no edge in E.
CreatedEdges(E, Eafter) == {x \in Eafter : <<x.src, x.dst>> \notin Pairs(E)}

\* C21: every step that creates a correspondence edge gives it a similarity
\* in [0,1] that is the similarity of the lower-cased values of
\* entity[entity_key] and domain[domain_key] at that moment, for the
\* entity_key and domain_key it stores; and no step changes the similarity,
\* entity_key or domain_key of the edge of a pair of nodes.  So the three
\* properties of every edge describe the one match computed when it was
\* created.
C21_ProvenanceOfCreation ==
    [][/\ \A x \in CreatedEdges(edges, edges') :
            /\ InUnit(x.similarity)
            /\ BothSet(x.src, x.dst, x.entity_key, x.domain_key)
            /\ x.similarity = Similarity(x.src, x.dst, x.entity_key, x.domain_key)
       /\ \A r \in edges :
            \A x \in edges' :
                (x.src = r.src /\ x.dst = r.dst) => Provenance(x) = Provenance(r)]_vars

\* An edge whose stored similarity is no longer the similarity of the two
\* values: the record was renamed after the edge was created, and a later
\* call has run.
C21_Witness ==
    /\ last.op \in {"build", "resolve"}
    /\ \E r \in edges :
          /\ BothSet(r.src, r.dst, r.entity_key, r.domain_key)
          /\ r.similarity # Similarity(r.src, r.dst, r.entity_key, r.domain_key)
          /\ r.similarity # One

-----------------------------------------------------------------------------
(* Further properties of the builder and the orchestrator (specification Spec) *)

\* The labels of node n that do not start with the system prefix.
SemanticLabels(n) == {l \in SeqToSet(nodes[n].labels) : ~StartsWith(l, SystemPrefix)}

\* C22: after every step the two endpoints of every correspondence edge
\* carry a common label that is not a system label, and the edges a
\* successful build creates join nodes that both carry the label of the
\* build, which is not a system label.
C22_EndpointsShareLabel ==
    [][/\ \A r \in edges' : SemanticLabels(r.src) \cap SemanticLabels(r.dst) # {}
       /\ BuildDone(last') =>
            \A x \in CreatedEdges(edges, edges') :
                last'.label \in SemanticLabels(x.src) \cap SemanticLabels(x.dst)]_vars

\* A build for one label has created an edge from an entity that carries
\* two labels to a record that carries only the label of the build, while
\* the graph holds a record of the other label with the same key.
C22_Witness ==
    /\ BuildDone(last)
    /\ \E r \in edges :
          /\ r.created_at = now - 1 /\ r.src # r.dst
          /\ SemanticLabels(r.src) # SemanticLabels(r.dst)
          /\ SemanticLabels(r.dst) = {last.label}
          /\ \E n \in NodeIds : /\ last.label \notin SemanticLabels(n)
                                /\ Prop(n, r.domain_key) # Null

\* C23: a build returns status "error", with an error message and
\* relationships_created 0, exactly when the store reports an error for
\* the join query, and then writes no edge; when the query succeeds and
\* matches no pair it returns status "success" with relationships_created 0.
C23_ErrorOnlyOnStoreError ==
    [][last'.op = "build" =>
         /\ last'.status = "error" <=> last'.fail = 1
         /\ last'.status \in {"error", "success"}
         /\ last'.status = "error" =>
              /\ "error" \in last'.keys /\ last'.count = 0 /\ edges' = edges
         /\ (/\ last'.fail = 0
             /\ JoinRows(last'.label, last'.entity_key, last'.domain_key,
                         last'.similarity_threshold) = {})
            => /\ last'.status = "success" /\ last'.count = 0
               /\ "error" \notin last'.keys]_vars

\* A build without store error has matched no pair, although the label
\* has entity nodes and records, and edges of an earlier call exist.
C23_Witness ==
    /\ last.op = "build" /\ last.fail = 0
    /\ last.status = "success" /\ last.count = 0
    /\ \E e, d \in NodeIds : /\ IsEntity(e) /\ HasLabel(e, last.label)
                             /\ ~IsEntity(d) /\ HasLabel(d, last.label)
    /\ edges # {}

\* The pairs of `rows` each have an edge in E written at `time` or later.
WrittenSince(E, rows, time) ==
    \A p \in rows : \E x \in E : /\ x.src = p[1] /\ x.dst = p[2]
                                 /\ (x.created_at >= time \/ x.updated_at >= time)

\* A validate_resolutions call that returned issues.
IssuesReported(call) == call.op = "validate" /\ call.issues # {}

\* C24: get_resolution_statistics and validate_resolutions leave every node
\* and every correspondence edge as it was, properties included; and a
\* build or a resolve_all_entities that directly follows a
\* validate_resolutions that reported issues, and meets no store error,
\* succeeds and writes an edge for every pair its join matches.
C24_AuditReadOnly ==
    [][/\ last'.op \in {"statistics", "validate"} => nodes' = nodes /\ edges' = edges
       /\ (IssuesReported(last) /\ last'.op = "build" /\ last'.fail = 0)
          => /\ last'.status = "success"
             /\ WrittenSince(edges', JoinRows(last'.label, last'.entity_key,
                                              last'.domain_key,
                                              last'.similarity_threshold), now)
       /\ (IssuesReported(last) /\ last'.op = "resolve" /\ last'.fail = 0)
          => /\ CleanRun(last')
             /\ \A i \in 1..Len(last'.builds) :
                   WrittenSince(edges', JoinRows(last'.builds[i][1], last'.builds[i][2],
                                                 last'.builds[i][3], last'.builds[i][5]),
                                now)]_vars

\* validate_resolutions has just reported an ambiguous entity and a weak
\* edge, and the driver can call again.
C24_Witness ==
    /\ last.op = "validate" /\ now < MaxClock
    /\ IssuesOf(last, "multiple_correspondences") # {}
    /\ IssuesOf(last, "low_similarity") # {}
    /\ edges # {}

\* The correlated key pairs of a label at the key threshold kt, ranked.
CorrelatedKeys(label, kt) ==
    correlate_keys(label, find_unique_entity_keys(label),
                   find_unique_domain_keys(label), kt)

\* The place of a key in the discovery order of the keys.
PlaceOf(keys, key) == SetMin({i \in 1..Len(keys) : keys[i] = key})

\* The pair x comes before the pair y in discovery order: entity keys
\* first, domain keys within an entity key.
DiscoveredBefore(entity_keys, domain_keys, x, y) ==
    \/ PlaceOf(entity_keys, x[1]) < PlaceOf(entity_keys, y[1])
    \/ /\ x[1] = y[1]
       /\ PlaceOf(domain_keys, x[2]) < PlaceOf(domain_keys, y[2])

\* The sum of the counts of the first i entries of entities_resolved.
RECURSIVE SumResolved(_, _)
SumResolved(entities_resolved, i) ==
    IF i = 0 THEN 0 ELSE SumResolved(entities_resolved, i - 1) + entities_resolved[i][2]

\* The correlated pairs of a label as the run sees them: none when a side
\* has no keys.
RankedFor(label, kt) == IF NoKeys(label) THEN <<>> ELSE CorrelatedKeys(label, kt)

\* The first of the ranked pairs has the highest score and, among the
\* pairs with that score, comes first in discovery order.
FirstIsBestOf(entity_keys, domain_keys, ranked) ==
    \A j \in 2..Len(ranked) :
        \/ RLess(ranked[j][3], ranked[1][3])
        \/ /\ ranked[j][3] = ranked[1][3]
           /\ DiscoveredBefore(entity_keys, domain_keys, ranked[1], ranked[j])

FirstIsBest(label, ranked) ==
    \A entity_keys \in {find_unique_entity_keys(label)},
       domain_keys \in {find_unique_domain_keys(label)} :
        FirstIsBestOf(entity_keys, domain_keys, ranked)

\* The call invoked one build for the label, with the first ranked pair
\* and its own similarity_threshold, or none when no pair is ranked.
BuiltOnceWith(call, label, ranked) ==
    IF ranked = <<>>
    THEN BuildsFor(call, label) = {}
    ELSE /\ Cardinality(BuildsFor(call, label)) = 1
         /\ \A k \in BuildsFor(call, label) :
               call.builds[k] = <<label, ranked[1][1], ranked[1][2], ranked[1][3],
                                  call.similarity_threshold>>
         /\ FirstIsBest(label, ranked)

\* C25: in a resolve_all_entities run that returns, every discovered label
\* with a correlated key pair gets exactly one build, called with the
\* caller's similarity_threshold and with the first pair of correlate_keys'
\* output, which has the highest score and, among the pairs with that
\* score, comes first in discovery order; a label without correlated pair
\* gets no build; every edge the run creates carries the key pair of the
\* build of a label of its entity; and total_relationships is the sum of
\* the counts in entities_resolved.
C25_BestPairOnce ==
    [][(last'.op = "resolve" /\ last'.status = "returned") =>
        /\ \A label \in SeqToSet(find_unique_entity_labels) :
             \A ranked \in {RankedFor(label, last'.key_correlation_threshold)} :
                BuiltOnceWith(last', label, ranked)
        /\ Len(last'.builds) <= Len(find_unique_entity_labels)
        /\ \A x \in CreatedEdges(edges, edges') :
             \E k \in 1..Len(last'.builds) :
                /\ HasLabel(x.src, last'.builds[k][1])
                /\ x.entity_key = last'.builds[k][2]
                /\ x.domain_key = last'.builds[k][3]
        /\ last'.count = SumResolved(last'.entities_resolved,
                                     Len(last'.entities_resolved))]_vars

\* A run has returned that created edges and built a label with two
\* correlated key pairs of the same score.
C25_Witness ==
    /\ last.op = "resolve" /\ last.status = "returned" /\ last.count > 0
    /\ \E r \in edges : r.created_at = now - 1
    /\ \E k \in 1..Len(last.builds) :
          LET ranked == CorrelatedKeys(last.builds[k][1], last.key_correlation_threshold)
          IN  /\ Len(ranked) >= 2
              /\ ranked[2][3] = ranked[1][3]
              /\ last.builds[k][2] = ranked[1][1]

-----------------------------------------------------------------------------
(* Further properties of the edges while the nodes change (SpecReload) *)

\* The edge r as ON MATCH leaves it at `time`.
Touched(r, time) == [r EXCEPT !.updated_at = time]

\* C26: a successful build that matches a pair of nodes that already has
\* a correspondence edge leaves the edge's similarity, entity_key,
\* domain_key and created_at as they were and sets its updated_at, also
\* when the build uses another key pair than the edge records and when the
\* similarity of the two nodes' values is no longer the one the edge
\* records.
C26_MatchKeepsProvenance ==
    [][BuildDone(last') =>
         \A r \in edges :
            <<r.src, r.dst>> \in JoinRows(last'.label, last'.entity_key,
                                          last'.domain_key, last'.similarity_threshold)
            => /\ Touched(r, now) \in edges'
               /\ \A x \in edges' :
                     (x.src = r.src /\ x.dst = r.dst)
                     => /\ Provenance(x) = Provenance(r)
                        /\ x.created_at = r.created_at
                        /\ x.updated_at = now]_vars

\* A build has matched, under another key pair, an edge whose record was
\* renamed since it was created: the edge still carries the first key pair
\* and the similarity of the first name.
C26_Witness ==
    /\ BuildDone(last) /\ last.count > 0
    /\ \E r \in edges :
          /\ r.updated_at = now - 1 /\ r.created_at < r.updated_at
          /\ r.src # r.dst
          /\ r.entity_key # last.entity_key
          /\ r.similarity # Similarity(r.src, r.dst, r.entity_key, r.domain_key)

-----------------------------------------------------------------------------
(* Further properties of the builder and the orchestrator (Spec), continued *)

\* The edge r is still in E, with at most its updated_at changed.
Kept(r, E) ==
    \E x \in E : /\ x.src = r.src /\ x.dst = r.dst
                 /\ x.created_at = r.created_at
                 /\ Provenance(x) = Provenance(r)

\* C27: a create_correspondence_relationships or resolve_all_entities call,
\* whatever its thresholds and key pair and whether or not the store fails
\* a query, keeps every correspondence edge that existed before it: the
\* set of edges only grows.
C27_EdgesOnlyGrow ==
    [][last'.op \in {"build", "resolve"} =>
         /\ \A r \in edges : Kept(r, edges')
         /\ Pairs(edges) \subseteq Pairs(edges')
         /\ Cardinality(edges) <= Cardinality(edges')]_vars

\* A successful build at a higher threshold has left alone an edge of its
\* label that an earlier call created at a lower threshold and that the
\* build does not match.
C27_Witness ==
    /\ BuildDone(last)
    /\ \E r \in edges :
          /\ HasLabel(r.src, last.label)
          /\ r.created_at < now - 1 /\ r.updated_at = 0
          /\ RLess(r.similarity, last.similarity_threshold)
          /\ <<r.src, r.dst>> \notin JoinRows(last.label, last.entity_key,
                                              last.domain_key,
                                              last.similarity_threshold)

-----------------------------------------------------------------------------
(* Further properties of correlate_keys (specification SpecKeys) *)

\* The list a is the list b with some elements left out.
RECURSIVE IsSubsequence(_, _)
IsSubsequence(a, b) ==
    IF a = <<>> THEN TRUE
    ELSE IF b = <<>> THEN FALSE
    ELSE IF Head(a) = Head(b) THEN IsSubsequence(Tail(a), Tail(b))
    ELSE IsSubsequence(a, Tail(b))

\* The output for the label and key lists of the call at the threshold t.
CorrelatedAt(t) == correlate_keys(kin.label, kin.entity_keys, kin.domain_keys, t)

HigherThresholds == {t \in CorrelationThresholds : RLess(kin.threshold, t)}

\* C28: for the label and key lists of a call, the output of correlate_keys
\* at every higher threshold is a subsequence of the call's output, and
\* when it is not empty its first element is the first element of the
\* call's output.
C28_ThresholdKeepsBestPair ==
    kout.done =>
        \A t \in HigherThresholds :
            \A higher \in {CorrelatedAt(t)} :
                /\ IsSubsequence(higher, kout.correlated)
                /\ higher # <<>> => higher[1] = kout.correlated[1]

\* A call at threshold 0 returning three pairs, of which one from the
\* middle of the discovery order is missing at 0.8 and two at a threshold
\* in between are not.
C28_Witness ==
    /\ kout.done /\ kin.threshold = Zero
    /\ Len(kout.correlated) = 3
    /\ Len(CorrelatedAt(<<4, 5>>)) = 2
    /\ Len(CorrelatedAt(<<1, 2>>)) = 3
    /\ kout.correlated[1][3] = One /\ kout.correlated[1][1] # kin.entity_keys[1]

\* The pair (i, j) of the call takes the elif branch: the normalized forms
\* differ and one contains the other.
DividesAt(i, j) ==
    /\ kout.normalized_entity[i] # kout.normalized_domain[j]
    /\ \/ IsSubstring(kout.normalized_entity[i], kout.normalized_domain[j])
       \/ IsSubstring(kout.normalized_domain[j], kout.normalized_entity[i])

\* The scores the call returned for the pair (i, j).
ScoresOf(i, j) == {kout.correlated[k][3] : k \in TriplesOf(i, j)}

\* C29: in every call of correlate_keys the divisor max(len, len) is
\* positive wherever the quotient is computed, and every score returned is
\* in [0,1]; two keys that both normalize to the empty text are paired
\* with score 1.0, and a key that normalizes to the empty text is paired
\* with a key that does not exactly when the threshold is at most 0, with
\* score 0.
C29_ScoresInUnitInterval ==
    kout.done =>
        /\ \A k \in 1..Len(kout.correlated) : InUnit(kout.correlated[k][3])
        /\ \A i \in 1..Len(kin.entity_keys), j \in 1..Len(kin.domain_keys) :
             \A ne \in {kout.normalized_entity[i]}, nd \in {kout.normalized_domain[j]} :
                /\ DividesAt(i, j) => Max2(Len(ne), Len(nd)) > 0
                /\ (ne = <<>> /\ nd = <<>>) => ScoresOf(i, j) = {One}
                /\ ((ne = <<>>) # (nd = <<>>))
                   => ScoresOf(i, j) = IF RGeq(Zero, kin.threshold) THEN {Zero} ELSE {}

\* A call at threshold 0 with the label itself among the keys of both
\* sides: it has paired the two empty forms with score 1.0 and an empty
\* form with a non-empty one with score 0.
C29_Witness ==
    /\ kout.done /\ kin.threshold = Zero
    /\ \E i \in 1..Len(kin.entity_keys), j \in 1..Len(kin.domain_keys) :
          /\ kout.normalized_entity[i] = <<>> /\ kout.normalized_domain[j] = <<>>
          /\ ScoresOf(i, j) = {One}
    /\ \E i \in 1..Len(kin.entity_keys), j \in 1..Len(kin.domain_keys) :
          /\ kout.normalized_entity[i] = <<>> /\ kout.normalized_domain[j] # <<>>
          /\ ScoresOf(i, j) = {Zero}

-----------------------------------------------------------------------------
(* Further properties of the quality score (specification SpecQuality) *)

\* C30: whatever the graph and whichever of the three metric queries fail,
\* the quality score is an integer from 40 to 100: the orphan penalty is at
\* most 30, the connectivity penalty at most 20 and the diversity penalty
\* at most 10, so the score is 100 less the three penalties and the floor
\* at 0 does not act.
C30_ScoreBetween40And100 ==
    kout.done =>
        /\ kout.quality_score \in 40..100
        /\ OrphanPenalty(kout.orphan_nodes) \in 0..30
        /\ ConnectivityPenalty(kout.connectivity_ratio) \in {0, 20}
        /\ DiversityPenalty(kout.relationship_types) \in {0, 10}
        /\ kout.quality_score = 100 - OrphanPenalty(kout.orphan_nodes)
                                    - ConnectivityPenalty(kout.connectivity_ratio)
                                    - DiversityPenalty(kout.relationship_types)

\* The lowest score, on a graph with relationships whose connectivity and
\* type queries both failed and whose orphan penalty is capped.
C30_Witness ==
    /\ kout.done /\ kout.quality_score = 40
    /\ kin.connectivity_error /\ kin.types_error /\ ~kin.orphan_error
    /\ kin.rels # {} /\ kout.orphan_nodes > 15

=============================================================================
